---- MODULE Spec2Model ----
(***************************************************************************)
(* Off-chain bid settlement engine of NitroCanvas-Auctions.                *)
(*                                                                         *)
(* The model follows back/src/utils/pricing.ts (class ERC7824Service, the  *)
(* second, complete copy at lines 570-1155), the bid route that calls it   *)
(* and the auction routes.  Node runs the handlers on one event loop: a    *)
(* handler runs without interruption up to its next `await` of real I/O    *)
(* (a db.query, a contract call), so every action below is "the awaited    *)
(* call completes, then the code runs up to the next awaited call".        *)
(* An `await` of an async function that itself awaits nothing              *)
(* (validateBidSignature, createAuctionChannel) resumes in a microtask     *)
(* before any I/O callback and is therefore not a separate step.           *)
(*                                                                         *)
(* Amounts are kept in the smallest unit; the decimal strings of the code  *)
(* ('0', '100') are represented by the integers that ethers.getBigInt      *)
(* reads from them.                                                        *)
(***************************************************************************)
EXTENDS Integers, Sequences, FiniteSets, TLC

\* ------------------------------------------------------------------ bounds
MaxTime == 2
MaxAmount == 4
MaxNonce == 2
MaxSubmits == 2
MaxSettles == 2
MaxJobs == 1

Procs == {1, 2}

\* ------------------------------------------------------- addresses, domain
ZeroAddress == "0x0"

\* The wallets that bid.  Alice's client sends her address in lower case,
\* Bob's sends the checksummed form; ethers returns recovered addresses in
\* the checksummed form.
Bidders == {"0xalice", "0xBob"}

toLowerCase(a) ==
  CASE a = "0xAlice" -> "0xalice"
    [] a = "0xBob" -> "0xbob"
    [] a = "0xDead" -> "0xdead"
    [] OTHER -> a

\* ethers.getAddress: the checksummed form of an address in either case.
getAddress(a) ==
  CASE toLowerCase(a) = "0xalice" -> "0xAlice"
    [] toLowerCase(a) = "0xbob" -> "0xBob"
    [] OTHER -> "0xDead"

OtherBidder(a) == IF toLowerCase(a) = "0xalice" THEN "0xBob" ELSE "0xAlice"

AuctionId == "a1"
\* A second auction of the auctions table.
OtherAuctionId == "a2"
\* An auction id for which the auctions table has no row.
GhostAuctionId == "ghost"

domain ==
  [name |-> "NFTMarketplaceAuction", version |-> "1", chainId |-> 11155111,
   verifyingContract |-> "marketplace"]

\* A domain that differs from the verifier's (another chain).
ForeignDomain == [domain EXCEPT !.chainId = 1]

\* The typed value that is hashed and signed: the five fields, the address
\* in its 20-byte form (case is not part of it).
BidValue(b) ==
  [auctionId |-> b.auctionId, bidder |-> toLowerCase(b.bidder),
   amount |-> b.amount, nonce |-> b.nonce, timestamp |-> b.timestamp]

NoValue ==
  [auctionId |-> "", bidder |-> "", amount |-> 0, nonce |-> 0, timestamp |-> 0]

\* A signature is what the signer committed to; a malformed one is bytes
\* from which no signer can be recovered.
Sign(signer, dom, value) ==
  [kind |-> "sig", signer |-> getAddress(signer), domain |-> dom, value |-> value]

MalformedSignature ==
  [kind |-> "malformed", signer |-> "", domain |-> domain, value |-> NoValue]

\* ethers.verifyTypedData: the signer when the signature is over this very
\* domain and value, some unrelated address otherwise.  Throws on malformed
\* bytes (callers test kind first).
verifyTypedData(dom, value, sig) ==
  IF sig.domain = dom /\ sig.value = value THEN sig.signer ELSE "0xDead"

\* Verifies under whatever domain the signature was made for.
validateBidSignatureAnyDomain(b) ==
  IF b.signature.kind = "malformed"
    THEN FALSE
    ELSE toLowerCase(verifyTypedData(b.signature.domain, BidValue(b), b.signature))
           = toLowerCase(b.bidder)

\* validateBidSignature: recover the signer of the five fields under the
\* service's domain and compare it with the bidder, case-insensitively;
\* anything thrown on the way is caught and answered with false.
validateBidSignature(b) ==
  IF b.signature.kind = "malformed"
    THEN FALSE
    ELSE toLowerCase(verifyTypedData(domain, BidValue(b), b.signature))
           = toLowerCase(b.bidder)

\* storeBid's bid hash: keccak256 of the ABI encoding of the five fields.
BidHash(b) == BidValue(b)

\* users.id of the user row of a wallet address.
UserId(a) == <<"user", a>>

\* ------------------------------------------------------------------ inputs
SigKinds == {"valid", "otherSigner", "alteredFields", "otherDomain", "malformed"}

MakeSignature(kind, f) ==
  CASE kind = "valid" -> Sign(f.bidder, domain, BidValue(f))
    [] kind = "otherSigner" -> Sign(OtherBidder(f.bidder), domain, BidValue(f))
    [] kind = "alteredFields" ->
         Sign(f.bidder, domain, [BidValue(f) EXCEPT !.amount = f.amount + 1])
    [] kind = "otherDomain" -> Sign(f.bidder, ForeignDomain, BidValue(f))
    [] OTHER -> MalformedSignature

MakeBid(aid, who, amt, n, ts, kind) ==
  LET f == [auctionId |-> aid, bidder |-> who, amount |-> amt, nonce |-> n,
            timestamp |-> ts]
  IN [auctionId |-> aid, bidder |-> who, amount |-> amt, nonce |-> n,
      timestamp |-> ts, signature |-> MakeSignature(kind, f)]

\* The bids a client can post at time t that name an auction that does not
\* exist: one correctly signed, one signed by somebody else.
GhostInputs(t) ==
  {MakeBid(GhostAuctionId, "0xalice", MaxAmount, 1, t, kind) :
     kind \in {"valid", "otherSigner"}}

\* The request bodies a client can post at time t: every correctly signed
\* bid on the auction, every such bid with a bad signature, and the bids
\* that name an auction that does not exist.
BidInputs(t) ==
  {MakeBid(AuctionId, who, amt, n, t, kind) :
     who \in Bidders, amt \in 0..MaxAmount, n \in 1..MaxNonce, kind \in SigKinds}
  \cup GhostInputs(t)

NoBid == MakeBid("", "", 0, 0, 0, "malformed")

\* ------------------------------------------------------------------- state
VARIABLES
  now,          \* wall clock
  auctions,     \* table auctions: id -> row
  bids,         \* table bids: set of rows, bid_hash unique
  users,        \* table users: the wallet addresses that have a row
  channels,     \* ERC7824Service.channels: channelId -> AuctionChannelState
  appChannel,   \* req.app settings auction_channel_<id>: auctionId -> channelId
  pc,           \* where each bid request stands
  req,          \* its bidData
  chan,         \* its channelId
  cur,          \* its currentState, as read from the channel
  ctx,          \* what held when it was submitted (history)
  accepted,     \* the calls of processBid that returned true, in order (history)
  last,         \* how the latest finished processBid call ended (history)
  submitted,    \* number of requests so far
  cancelPc,     \* where the seller's cancel request stands
  attempts,     \* table settlement_attempts, rows in insertion order
  spc,          \* where each settle request stands
  srow,         \* its `auction`, the row the join returned
  stx,          \* its transaction
  serr,         \* the error it caught
  sat,          \* when it was invoked (history)
  sdone,        \* whether the auction was completed when it was invoked (history)
  receipts,     \* the transactions whose wait returned a receipt (history)
  chainActive,  \* the marketplace contract's auction.isActive
  calls,        \* the contract calls sent so far (history)
  sent,         \* the messages broadcast to the WebSocket clients
  settles,      \* number of settle requests so far
  jpc,          \* where the run of the settlement job stands
  jwin,         \* its winningBid
  jerr,         \* the error its catch block caught
  jat,          \* the `new Date()` of its UPDATE ... 'processing'
  jobs,         \* number of runs of the settlement job so far
  hpc,          \* where the run of the health check job stands
  clients,      \* wss.clients: the state of each observer's connection
  subs,         \* the auctions each observer sent a subscribe message for
  wsConnections,\* ERC7824Service.wsConnections: auctionId -> connections
  inbox,        \* the messages each observer received
  broadcasts,   \* the calls of broadcastBidUpdate so far (history)
  chain         \* the marketplace contract: its storage, balance and last call

\* The bid route's service and its requests.
bidState == <<channels, appChannel, pc, req, chan, cur, ctx, accepted, last, submitted>>

\* The settle route's requests and what they sent.
settleState ==
  <<attempts, spc, srow, stx, serr, sat, sdone, receipts, chainActive, calls, sent,
    settles>>

\* The runs of the settlement job and of the health check job.
jobState == <<jpc, jwin, jerr, jat, jobs, hpc>>

\* The WebSocket server, its observers and the service's connection lists.
wsState == <<clients, subs, wsConnections, inbox, broadcasts>>

vars ==
  <<now, auctions, bids, users, bidState, cancelPc, settleState, jobState, wsState,
    chain>>

NoChannel == <<"", 0>>

initialState(auctionId) ==
  [auctionId |-> auctionId, bids |-> <<>>, highestBid |-> 0,
   highestBidder |-> ZeroAddress, turnNum |-> 0]

NoState == initialState("")

NoCtx == [seen |-> 0, at |-> 0, status |-> "", stored |-> FALSE]

\* The row the create route inserts: active, no bid yet, prices in wei.
NewAuctionRow ==
  [status |-> "active", start_time |-> 0, end_time |-> 1,
   starting_price |-> 2, min_bid_increment |-> 2,
   highest_bid |-> 0, highest_bidder |-> ZeroAddress,
   contract_auction_id |-> 0,
   settlement_status |-> "null", settlement_attempted_at |-> 0,
   settlement_error |-> "", settlement_tx_hash |-> ""]

\* The create route stores parseEther(startingPrice) whenever the field is
\* a non-empty string, "0" included.
StartingPrices == {0, 2}

SettleReqs == {1, 2}

NoJoinedRow ==
  [id |-> "", contract_auction_id |-> 0, bidder_id |-> UserId(""),
   winning_amount |-> 0, signature |-> MalformedSignature, marked_at |-> 0]

NoTx == <<"tx", 0>>

\* No bid has been posted and no request is in flight.
InitBidState ==
  /\ channels = <<>>
  /\ appChannel = [a \in {AuctionId, GhostAuctionId} |-> NoChannel]
  /\ pc = [p \in Procs |-> "idle"]
  /\ req = [p \in Procs |-> NoBid]
  /\ chan = [p \in Procs |-> NoChannel]
  /\ cur = [p \in Procs |-> NoState]
  /\ ctx = [p \in Procs |-> NoCtx]
  /\ accepted = <<>>
  /\ last = [ok |-> FALSE, reason |-> <<"none", 0, 0>>]
  /\ submitted = 0

InitSettleState ==
  /\ attempts = <<>>
  /\ spc = [s \in SettleReqs |-> "idle"]
  /\ srow = [s \in SettleReqs |-> NoJoinedRow]
  /\ stx = [s \in SettleReqs |-> NoTx]
  /\ serr = [s \in SettleReqs |-> ""]
  /\ sat = [s \in SettleReqs |-> 0]
  /\ sdone = [s \in SettleReqs |-> FALSE]
  /\ receipts = {}
  /\ chainActive = TRUE
  /\ calls = <<>>
  /\ sent = <<>>
  /\ settles = 0

\* The observers that may connect to the WebSocket server.
Observers == {"o1", "o2"}

NoWinningBid == [NoBid EXCEPT !.bidder = UserId("")]

\* The job has not run yet.
InitJobState ==
  /\ jpc = "idle"
  /\ jwin = NoWinningBid
  /\ jerr = ""
  /\ jat = 0
  /\ jobs = 0
  /\ hpc = "idle"

\* No observer has connected; the service was constructed with an empty
\* map of connections.
InitWsState ==
  /\ clients = [o \in Observers |-> "none"]
  /\ subs = [o \in Observers |-> {}]
  /\ wsConnections = [a \in {AuctionId, GhostAuctionId} |-> {}]
  /\ inbox = [o \in Observers |-> <<>>]
  /\ broadcasts = <<>>

\* ------------------------------------------- the marketplace contract
\* NFTMarketplaceERC7824 with one auction (auctions[_auctionId]); the
\* contract's address is "marketplace", the owner never pauses it.
Seller == "0xSeller"
Owner == "0xOwner"
MAX_PLATFORM_FEE == 1000
BasisPoints == 10000

NoCall ==
  [fn |-> "", ok |-> FALSE, reason |-> "", winner |-> ZeroAddress, amount |-> 0,
   rate |-> 0, feeAmount |-> 0, sellerAmount |-> 0, toSeller |-> 0, toOwner |-> 0]

\* The state after the constructor and createERC7824Auction (erc) or
\* createAuction (~erc): the fee is 250 basis points, the NFT is held by the
\* contract, the auction runs from block time 0 to 1.  `received` is what
\* the contract has sent to each account, `last` its latest call.
Deployed(erc) ==
  [auction |-> [seller |-> Seller, startingPrice |-> 10, minBidIncrement |-> 5,
                startTime |-> 0, endTime |-> 1, highestBidder |-> ZeroAddress,
                highestBid |-> 0, isActive |-> TRUE, isERC7824 |-> erc],
   bidderNonces |-> [a \in {"0xAlice", "0xBob"} |-> 0],
   processedBids |-> {},
   platformFee |-> 250,
   nftOwner |-> "marketplace",
   balance |-> 0,
   received |-> [a \in {Seller, Owner, "0xAlice", "0xBob"} |-> 0],
   last |-> NoCall]

InitChain == chain = Deployed(TRUE)

\* The auction has just been created.
Init ==
  /\ now = 0
  /\ \E sp \in StartingPrices :
       auctions = [a \in {AuctionId} |-> [NewAuctionRow EXCEPT !.starting_price = sp]]
  /\ bids = {}
  /\ users = {}
  /\ cancelPc = "idle"
  /\ InitBidState
  /\ InitSettleState
  /\ InitJobState
  /\ InitWsState
  /\ InitChain

\* ------------------------------------------------ ERC7824Service, bid path
\* createAuctionChannel: the id is keccak256 of `auction_<id>_<Date.now()>`.
\* (NewChannelIdByTime hashes the time alone.)
NewChannelIdByTime(auctionId) == <<"", now>>

NewChannelId(auctionId) == <<auctionId, now>>

SetChannel(chs, id, st) == (id :> st) @@ chs

\* processBid, the minimum the amount is compared with.
minBid(currentState, row) ==
  IF currentState.highestBid = 0
    THEN row.starting_price
    ELSE currentState.highestBid + row.min_bid_increment

BidTooLow(bidAmount, min) == bidAmount < min

\* processBid, the state it writes back on success.
newState(currentState, bidData) ==
  [currentState EXCEPT
     !.bids = Append(currentState.bids, bidData),
     !.highestBid = bidData.amount,
     !.highestBidder = bidData.bidder,
     !.turnNum = currentState.turnNum + 1]

\* uuidv4(): an id no row of the table has.
uuidv4(table) == Cardinality(table) + 1

\* The row storeBid inserts.
BidRow(id, b, validUntil) ==
  [id |-> id, auction_id |-> b.auctionId, bidder_id |-> UserId(b.bidder), amount |-> b.amount,
   signature |-> b.signature, nonce |-> b.nonce, bid_hash |-> BidHash(b),
   signature_valid_until |-> validUntil, timestamp |-> b.timestamp]

\* An INSERT INTO bids that records nothing.
InsertBidDropped(table, row) == table

\* INSERT INTO bids without the ON CONFLICT clause, on a table without the
\* unique index.
InsertBidAlways(table, row) == table \cup {row}

\* INSERT INTO bids ... ON CONFLICT (bid_hash) DO NOTHING
InsertBid(table, row) ==
  IF \E r \in table : r.bid_hash = row.bid_hash THEN table ELSE table \cup {row}

\* broadcastBidUpdate: the message goes to the connections listed for the
\* auction whose readyState is OPEN.
broadcastBidUpdate(channelId, bidData) ==
  /\ inbox' = [o \in Observers |->
                 IF o \in wsConnections[bidData.auctionId] /\ clients[o] = "open"
                   THEN Append(inbox[o], [type |-> "bid_update",
                                          auctionId |-> bidData.auctionId,
                                          bid |-> bidData, channelId |-> channelId])
                   ELSE inbox[o]]
  /\ broadcasts' = Append(broadcasts, [channelId |-> channelId, bid |-> bidData])
  /\ UNCHANGED <<clients, subs, wsConnections>>

Rejected(reason) == [ok |-> FALSE, reason |-> reason]
Accepted == [ok |-> TRUE, reason |-> <<"", 0, 0>>]

\* A call of processBid ends by throwing: the route answers 500.
Throw(p, reason) ==
  /\ pc' = [pc EXCEPT ![p] = "idle"]
  /\ req' = [req EXCEPT ![p] = NoBid]
  /\ chan' = [chan EXCEPT ![p] = NoChannel]
  /\ cur' = [cur EXCEPT ![p] = NoState]
  /\ ctx' = [ctx EXCEPT ![p] = NoCtx]
  /\ last' = Rejected(reason)

\* POST /bids: the route gets or creates the channel of the auction and
\* calls processBid, which validates the signature, reads the channel state
\* and sends the query for the auction's prices.
\* A request takes the first free slot.
CanSubmit(p) ==
  /\ pc[p] = "idle"
  /\ \A q \in Procs : q < p => pc[q] # "idle"
  /\ submitted < MaxSubmits

Submit(p, b) ==
  /\ CanSubmit(p)
  /\ submitted' = submitted + 1
  /\ LET known == appChannel[b.auctionId] # NoChannel
         channelId == IF known THEN appChannel[b.auctionId]
                      ELSE NewChannelId(b.auctionId)
         chs == IF known THEN channels
                ELSE SetChannel(channels, channelId, initialState(b.auctionId))
     IN /\ appChannel' = [appChannel EXCEPT ![b.auctionId] = channelId]
        /\ channels' = chs
        /\ IF ~validateBidSignature(b)
             THEN Throw(p, <<"Invalid bid signature", 0, 0>>)
           ELSE IF channelId \notin DOMAIN chs
             THEN Throw(p, <<"Channel not found", 0, 0>>)
           ELSE /\ pc' = [pc EXCEPT ![p] = "auctionQuery"]
                /\ req' = [req EXCEPT ![p] = b]
                /\ chan' = [chan EXCEPT ![p] = channelId]
                /\ cur' = [cur EXCEPT ![p] = chs[channelId]]
                /\ ctx' = [ctx EXCEPT ![p] =
                             [seen |-> Len(accepted), at |-> now,
                              status |-> IF b.auctionId \in DOMAIN auctions
                                           THEN auctions[b.auctionId].status
                                           ELSE "missing",
                              stored |-> \E r \in bids : r.bid_hash = BidHash(b)]]
                /\ last' = last
  /\ UNCHANGED <<now, auctions, bids, users, accepted, cancelPc, settleState>>
  /\ UNCHANGED <<jobState, wsState>>
  /\ UNCHANGED chain

\* SELECT starting_price, min_bid_increment returns; the amount rule; on
\* success storeBid is entered and asks for the auction's end_time.
AfterAuctionQuery(p) ==
  /\ pc[p] = "auctionQuery"
  /\ IF req[p].auctionId \notin DOMAIN auctions
       THEN Throw(p, <<"Auction not found", 0, 0>>)
     ELSE LET min == minBid(cur[p], auctions[req[p].auctionId])
          IN IF BidTooLow(req[p].amount, min)
               THEN Throw(p, <<"Bid amount too low", min, req[p].amount>>)
               ELSE /\ pc' = [pc EXCEPT ![p] = "endTimeQuery"]
                    /\ UNCHANGED <<req, chan, cur, ctx, last>>
  /\ UNCHANGED <<now, auctions, bids, users, channels, appChannel, accepted, submitted,
                 cancelPc, settleState>>
  /\ UNCHANGED <<jobState, wsState>>
  /\ UNCHANGED chain

\* storeBid: SELECT end_time returns; SELECT id FROM users is sent.
AfterEndTimeQuery(p) ==
  /\ pc[p] = "endTimeQuery"
  /\ pc' = [pc EXCEPT ![p] = "userQuery"]
  /\ UNCHANGED <<now, auctions, bids, users, channels, appChannel, req, chan, cur,
                 ctx, accepted, last, submitted, cancelPc, settleState>>
  /\ UNCHANGED <<jobState, wsState>>
  /\ UNCHANGED chain

\* storeBid: the user lookup returns; either the user is inserted next or
\* the bid is.
AfterUserQuery(p) ==
  /\ pc[p] = "userQuery"
  /\ pc' = [pc EXCEPT ![p] =
              IF req[p].bidder \in users THEN "bidInsert" ELSE "userInsert"]
  /\ UNCHANGED <<now, auctions, bids, users, channels, appChannel, req, chan, cur,
                 ctx, accepted, last, submitted, cancelPc, settleState>>
  /\ UNCHANGED <<jobState, wsState>>
  /\ UNCHANGED chain

\* storeBid: INSERT INTO users ... ON CONFLICT (wallet_address) DO UPDATE.
AfterUserInsert(p) ==
  /\ pc[p] = "userInsert"
  /\ users' = users \cup {req[p].bidder}
  /\ pc' = [pc EXCEPT ![p] = "bidInsert"]
  /\ UNCHANGED <<now, auctions, bids, channels, appChannel, req, chan, cur, ctx,
                 accepted, last, submitted, cancelPc, settleState>>
  /\ UNCHANGED <<jobState, wsState>>
  /\ UNCHANGED chain

\* storeBid: INSERT INTO bids executes and storeBid returns; processBid
\* sends UPDATE auctions.
AfterBidInsert(p) ==
  /\ pc[p] = "bidInsert"
  /\ bids' = InsertBid(bids, BidRow(uuidv4(bids), req[p],
                                 auctions[req[p].auctionId].end_time))
  /\ pc' = [pc EXCEPT ![p] = "auctionUpdate"]
  /\ UNCHANGED <<now, auctions, users, channels, appChannel, req, chan, cur, ctx,
                 accepted, last, submitted, cancelPc, settleState>>
  /\ UNCHANGED <<jobState, wsState>>
  /\ UNCHANGED chain

\* UPDATE auctions SET highest_bidder, highest_bid executes; the channel is
\* set to the new state, the update is broadcast and processBid returns true.
AfterAuctionUpdate(p) ==
  /\ pc[p] = "auctionUpdate"
  /\ auctions' = [auctions EXCEPT
                    ![req[p].auctionId].highest_bidder = req[p].bidder,
                    ![req[p].auctionId].highest_bid = req[p].amount]
  /\ channels' = SetChannel(channels, chan[p], newState(cur[p], req[p]))
  /\ accepted' = Append(accepted,
                        [bid |-> req[p], base |-> cur[p].highestBid,
                         seen |-> ctx[p].seen, at |-> ctx[p].at,
                         status |-> ctx[p].status])
  /\ last' = Accepted
  /\ pc' = [pc EXCEPT ![p] = "idle"]
  /\ req' = [req EXCEPT ![p] = NoBid]
  /\ chan' = [chan EXCEPT ![p] = NoChannel]
  /\ cur' = [cur EXCEPT ![p] = NoState]
  /\ ctx' = [ctx EXCEPT ![p] = NoCtx]
  /\ broadcastBidUpdate(chan[p], req[p])
  /\ UNCHANGED <<now, bids, users, appChannel, submitted, cancelPc, settleState>>
  /\ UNCHANGED jobState
  /\ UNCHANGED chain

\* A query of processBid or storeBid fails (the connection is lost, the
\* statement times out): nothing of it is executed, the error propagates
\* through processBid's catch and the route answers 500.
StoreFails(p) ==
  /\ pc[p] \in {"auctionQuery", "endTimeQuery", "userQuery", "userInsert", "bidInsert",
               "auctionUpdate"}
  /\ Throw(p, <<"store error", 0, 0>>)
  /\ UNCHANGED <<now, auctions, bids, users, channels, appChannel, accepted, submitted,
                 cancelPc, settleState, jobState, wsState>>
  /\ UNCHANGED chain

\* POST /:auctionId/cancel by the seller: the SELECT finds the auction
\* active; an auction without contract_auction_id needs no contract call, so
\* the UPDATE is sent at once.
CancelSelect ==
  /\ cancelPc = "idle"
  /\ auctions[AuctionId].status = "active"
  /\ cancelPc' = "update"
  /\ UNCHANGED <<now, auctions, bids, users, bidState, settleState>>
  /\ UNCHANGED <<jobState, wsState>>
  /\ UNCHANGED chain

\* UPDATE auctions SET status = 'cancelled' WHERE id = $1 executes.
CancelUpdate ==
  /\ cancelPc = "update"
  /\ auctions' = [auctions EXCEPT ![AuctionId].status = "cancelled"]
  /\ cancelPc' = "idle"
  /\ UNCHANGED <<now, bids, users, bidState, settleState>>
  /\ UNCHANGED <<jobState, wsState>>
  /\ UNCHANGED chain

\* Time passes.
Tick ==
  /\ now < MaxTime
  /\ now' = now + 1
  /\ UNCHANGED <<auctions, bids, users, bidState, cancelPc, settleState>>
  /\ UNCHANGED <<jobState, wsState>>
  /\ UNCHANGED chain

\* Bid requests, up to two of them in flight at once.
Next ==
  \/ \E p \in Procs : CanSubmit(p) /\ \E b \in BidInputs(now) : Submit(p, b)
  \/ \E p \in Procs : AfterAuctionQuery(p)
  \/ \E p \in Procs : AfterEndTimeQuery(p)
  \/ \E p \in Procs : AfterUserQuery(p)
  \/ \E p \in Procs : AfterUserInsert(p)
  \/ \E p \in Procs : AfterBidInsert(p)
  \/ \E p \in Procs : AfterAuctionUpdate(p)
  \/ Tick

Spec == Init /\ [][Next]_vars

\* Bid requests one at a time, and the seller's cancel request.
NextCancel ==
  \/ CanSubmit(1) /\ \E b \in BidInputs(now) : Submit(1, b)
  \/ AfterAuctionQuery(1)
  \/ AfterEndTimeQuery(1)
  \/ AfterUserQuery(1)
  \/ AfterUserInsert(1)
  \/ AfterBidInsert(1)
  \/ AfterAuctionUpdate(1)
  \/ CancelSelect
  \/ CancelUpdate
  \/ Tick

SpecCancel == Init /\ [][NextCancel]_vars

\* Bid requests one at a time, any of whose queries may fail.
NextStoreFail ==
  \/ CanSubmit(1) /\ \E b \in BidInputs(now) : Submit(1, b)
  \/ AfterAuctionQuery(1)
  \/ AfterEndTimeQuery(1)
  \/ AfterUserQuery(1)
  \/ AfterUserInsert(1)
  \/ AfterBidInsert(1)
  \/ AfterAuctionUpdate(1)
  \/ StoreFails(1)
  \/ Tick

SpecStoreFail == Init /\ [][NextStoreFail]_vars

\* ------------------------------------------------------ WebSocket server
\* wss.on('connection'): an observer connects.
Connect(o) ==
  /\ clients[o] = "none"
  /\ clients' = [clients EXCEPT ![o] = "open"]
  /\ UNCHANGED <<now, auctions, bids, users, bidState, cancelPc, settleState, jobState,
                 subs, wsConnections, inbox, broadcasts>>
  /\ UNCHANGED chain

\* ws.on('message'): a subscribe message for an auction is answered with
\* 'subscribed'.  The handler does not call addWebSocketConnection (nothing
\* does), so the service's list of connections stays as it is.
Subscribe(o, auctionId) ==
  /\ clients[o] = "open"
  /\ auctionId \notin subs[o]
  /\ subs' = [subs EXCEPT ![o] = @ \cup {auctionId}]
  /\ inbox' = [inbox EXCEPT ![o] = Append(@, [type |-> "subscribed",
                                              auctionId |-> auctionId])]
  /\ UNCHANGED <<now, auctions, bids, users, bidState, cancelPc, settleState, jobState,
                 clients, wsConnections, broadcasts>>
  /\ UNCHANGED chain

\* ws.on('close'): the connection has closed; the handler logs it.
Close(o) ==
  /\ clients[o] = "open"
  /\ clients' = [clients EXCEPT ![o] = "closed"]
  /\ UNCHANGED <<now, auctions, bids, users, bidState, cancelPc, settleState, jobState,
                 subs, wsConnections, inbox, broadcasts>>
  /\ UNCHANGED chain

\* Bid requests one at a time, and observers that connect, subscribe to the
\* auction and close.
NextWs ==
  \/ CanSubmit(1) /\ \E b \in BidInputs(now) : Submit(1, b)
  \/ AfterAuctionQuery(1)
  \/ AfterEndTimeQuery(1)
  \/ AfterUserQuery(1)
  \/ AfterUserInsert(1)
  \/ AfterBidInsert(1)
  \/ AfterAuctionUpdate(1)
  \/ \E o \in Observers : Connect(o)
  \/ \E o \in Observers : Subscribe(o, AuctionId)
  \/ \E o \in Observers : Close(o)

SpecWs == Init /\ [][NextWs]_vars

\* --------------------------------------------------- createAuctionChannel
\* A call of createAuctionChannel(auctionId) on the service: the channel id
\* is computed and the initial state is stored under it.
CreateChannel(auctionId) ==
  /\ channels' = SetChannel(channels, NewChannelId(auctionId), initialState(auctionId))
  /\ UNCHANGED <<now, auctions, bids, users, appChannel, pc, req, chan, cur, ctx,
                 accepted, last, submitted, cancelPc, settleState, jobState, wsState>>
  /\ UNCHANGED chain

\* Calls of createAuctionChannel at any moment, and bid requests one at a
\* time.
NextChannel ==
  \/ CreateChannel(AuctionId)
  \/ CanSubmit(1) /\ \E b \in BidInputs(now) : Submit(1, b)
  \/ AfterAuctionQuery(1)
  \/ AfterEndTimeQuery(1)
  \/ AfterUserQuery(1)
  \/ AfterUserInsert(1)
  \/ AfterBidInsert(1)
  \/ AfterAuctionUpdate(1)
  \/ Tick

SpecChannel == Init /\ [][NextChannel]_vars

\* ------------------------------------------- discarding the in-memory state
\* ERC7824Service.disconnect(): both maps are cleared.  The route's
\* auction_channel_<id> settings are not touched.
Disconnect ==
  /\ channels # <<>>
  /\ channels' = <<>>
  /\ wsConnections' = [a \in DOMAIN wsConnections |-> {}]
  /\ UNCHANGED <<now, auctions, bids, users, appChannel, pc, req, chan, cur, ctx,
                 accepted, last, submitted, cancelPc, settleState, jobState,
                 clients, subs, inbox, broadcasts>>
  /\ UNCHANGED chain

\* The process restarts: the service is constructed again with empty maps,
\* the app settings are gone, the requests in flight and the WebSocket
\* connections are dropped.  The tables stay as they are.
Restart ==
  /\ channels # <<>>
  /\ channels' = <<>>
  /\ appChannel' = [a \in DOMAIN appChannel |-> NoChannel]
  /\ pc' = [p \in Procs |-> "idle"]
  /\ req' = [p \in Procs |-> NoBid]
  /\ chan' = [p \in Procs |-> NoChannel]
  /\ cur' = [p \in Procs |-> NoState]
  /\ ctx' = [p \in Procs |-> NoCtx]
  /\ wsConnections' = [a \in DOMAIN wsConnections |-> {}]
  /\ clients' = [o \in Observers |-> IF clients[o] = "open" THEN "closed" ELSE clients[o]]
  /\ UNCHANGED <<now, auctions, bids, users, accepted, last, submitted, cancelPc,
                 settleState, jobState, subs, inbox, broadcasts>>
  /\ UNCHANGED chain

\* Bid requests one at a time, with disconnect() or a restart at any moment.
NextRestart ==
  \/ CanSubmit(1) /\ \E b \in BidInputs(now) : Submit(1, b)
  \/ AfterAuctionQuery(1)
  \/ AfterEndTimeQuery(1)
  \/ AfterUserQuery(1)
  \/ AfterUserInsert(1)
  \/ AfterBidInsert(1)
  \/ AfterAuctionUpdate(1)
  \/ Disconnect
  \/ Restart
  \/ Tick

SpecRestart == Init /\ [][NextRestart]_vars

\* ----------------------------------------------- ERC7824Service, settlement
\* How the column bids.amount compares in MAX(amount): as a number (the
\* bid's amount is an integer in the smallest unit).
AmountLeq(x, y) == x <= y

\* The rows settleAuction's join can return: auctions LEFT JOIN bids WHERE
\* b.amount = (SELECT MAX(amount) ...) ORDER BY b.timestamp ASC LIMIT 1.
\* Without a bid the subquery is NULL and no row qualifies.
\* (WinnerRowsLatest is the same query with ORDER BY b.timestamp DESC;
\* WinnerRowsFromChannel takes the channel's highest bidder and bid instead.)
WinnerRowsFromChannel(auctionId) ==
  IF auctionId \notin DOMAIN auctions \/ appChannel[auctionId] = NoChannel
    THEN {}
    ELSE {r \in bids : /\ r.auction_id = auctionId
                       /\ r.bidder_id = UserId(channels[appChannel[auctionId]].highestBidder)
                       /\ r.amount = channels[appChannel[auctionId]].highestBid}

WinnerRowsLatest(auctionId) ==
  LET mine == {r \in bids : r.auction_id = auctionId}
      top == {r \in mine : \A o \in mine : AmountLeq(o.amount, r.amount)}
  IN IF auctionId \notin DOMAIN auctions THEN {}
     ELSE {r \in top : \A o \in top : o.timestamp <= r.timestamp}

WinnerRows(auctionId) ==
  LET mine == {r \in bids : r.auction_id = auctionId}
      top == {r \in mine : \A o \in mine : AmountLeq(o.amount, r.amount)}
  IN IF auctionId \notin DOMAIN auctions THEN {}
     ELSE {r \in top : \A o \in top : r.timestamp <= o.timestamp}

\* The `auction` object of settleAuction: the auction's columns and the
\* winning bid's; marked_at is the `new Date()` passed to the UPDATE that
\* marks the settlement as processing.
JoinedRow(auctionId, r, at) ==
  [id |-> auctionId, contract_auction_id |-> auctions[auctionId].contract_auction_id,
   bidder_id |-> r.bidder_id, winning_amount |-> r.amount, signature |-> r.signature,
   marked_at |-> at]

CanSettle(s) ==
  /\ spc[s] = "idle"
  /\ \A q \in SettleReqs : q < s => spc[q] # "idle"
  /\ settles < MaxSettles

\* The catch block of settleAuction is entered with this error.
Catch(s, message) ==
  /\ spc' = [spc EXCEPT ![s] = "catchUpdate"]
  /\ serr' = [serr EXCEPT ![s] = message]

\* The settle request is over; its locals are dropped.
SettleEnds(s) ==
  /\ spc' = [spc EXCEPT ![s] = "idle"]
  /\ srow' = [srow EXCEPT ![s] = NoJoinedRow]
  /\ stx' = [stx EXCEPT ![s] = NoTx]
  /\ serr' = [serr EXCEPT ![s] = ""]
  /\ sat' = [sat EXCEPT ![s] = 0]
  /\ sdone' = [sdone EXCEPT ![s] = FALSE]

\* A call of marketplaceContract.completeAuction is sent.
CallContract(s, id) ==
  /\ calls' = Append(calls, [fn |-> "completeAuction", id |-> id, by |-> s])
  /\ stx' = [stx EXCEPT ![s] = <<"tx", Len(calls) + 1>>]

\* POST /:auctionId/settle: the route builds a service with the WebSocket
\* server and calls settleAuction, which sends the join.
SettleStart(s) ==
  /\ CanSettle(s)
  /\ settles' = settles + 1
  /\ spc' = [spc EXCEPT ![s] = "winnerQuery"]
  /\ sat' = [sat EXCEPT ![s] = now]
  /\ sdone' = [sdone EXCEPT ![s] = auctions[AuctionId].settlement_status = "completed"]
  /\ UNCHANGED <<now, auctions, bids, users, bidState, cancelPc, attempts, srow, stx,
                 serr, chainActive, calls, sent>>
  /\ UNCHANGED <<receipts, jobState, wsState>>
  /\ UNCHANGED chain

\* The join returns.  No row: the error is caught and UPDATE ... 'failed'
\* is sent.  A row: UPDATE ... 'processing' is sent.
AfterWinnerQuery(s) ==
  /\ spc[s] = "winnerQuery"
  /\ IF WinnerRows(AuctionId) = {}
       THEN /\ Catch(s, "Auction or winning bid not found")
            /\ UNCHANGED srow
       ELSE \E r \in WinnerRows(AuctionId) :
              /\ srow' = [srow EXCEPT ![s] = JoinedRow(AuctionId, r, now)]
              /\ spc' = [spc EXCEPT ![s] = "markProcessing"]
              /\ UNCHANGED serr
  /\ UNCHANGED <<now, auctions, bids, users, bidState, cancelPc, attempts, stx, sat,
                 chainActive, calls, sent, settles>>
  /\ UNCHANGED <<sdone, receipts, jobState, wsState>>
  /\ UNCHANGED chain

\* UPDATE ... settlement_status = 'processing' executes; the branch is
\* chosen: no winning amount, no contract_auction_id, or a legacy auction.
AfterMarkProcessing(s) ==
  /\ spc[s] = "markProcessing"
  /\ auctions' = [auctions EXCEPT
                    ![srow[s].id].settlement_status = "processing",
                    ![srow[s].id].settlement_attempted_at = srow[s].marked_at]
  /\ IF srow[s].winning_amount = 0 /\ srow[s].contract_auction_id = 0
       THEN \* completeAuction(null): the argument cannot be encoded
            /\ Catch(s, "invalid BigNumberish value")
            /\ UNCHANGED <<calls, stx>>
     ELSE IF srow[s].winning_amount = 0
       THEN /\ CallContract(s, srow[s].contract_auction_id)
            /\ spc' = [spc EXCEPT ![s] = "noBidsCall"]
            /\ UNCHANGED serr
     ELSE IF srow[s].contract_auction_id = 0
       THEN /\ spc' = [spc EXCEPT ![s] = "ercUpdate"]
            /\ UNCHANGED <<calls, stx, serr>>
     ELSE /\ CallContract(s, srow[s].contract_auction_id)
          /\ spc' = [spc EXCEPT ![s] = "legacyCall"]
          /\ UNCHANGED serr
  /\ UNCHANGED <<now, bids, users, bidState, cancelPc, attempts, srow, sat,
                 chainActive, sent, settles>>
  /\ UNCHANGED <<sdone, receipts, jobState, wsState>>
  /\ UNCHANGED chain

\* The call returns the transaction once it has been sent (a gas limit is
\* given, so nothing is estimated first), or throws.  processWinningBid-
\* Settlement then inserts the attempt; handleNoBidsSettlement waits.
AfterContractCall(s, ok) ==
  /\ spc[s] \in {"legacyCall", "noBidsCall"}
  /\ IF ok
       THEN /\ spc' = [spc EXCEPT ![s] =
                         IF spc[s] = "legacyCall" THEN "attemptInsert" ELSE "noBidsWait"]
            /\ UNCHANGED serr
       ELSE Catch(s, "completeAuction failed")
  /\ UNCHANGED <<now, auctions, bids, users, bidState, cancelPc, attempts, srow, stx,
                 sat, chainActive, calls, sent, settles>>
  /\ UNCHANGED <<sdone, receipts, jobState, wsState>>
  /\ UNCHANGED chain

\* The contract's completeAuction: it requires the auction to be active
\* and its end time to have passed, and makes it inactive.
CompleteAuctionSucceeds == chainActive /\ now > auctions[AuctionId].end_time

\* How a wait for the transaction can end: it reverted, it was executed
\* and the receipt came back, or it was executed and the wait failed.
WaitOutcomes == {"reverted", "confirmed", "lost"}

\* INSERT INTO settlement_attempts ... 'pending' executes; tx.wait() starts.
AfterAttemptInsert(s) ==
  /\ spc[s] = "attemptInsert"
  /\ attempts' = Append(attempts,
                        [auction_id |-> srow[s].id, winning_bid_id |-> srow[s].bidder_id,
                         tx_hash |-> stx[s], status |-> "pending", error_message |-> "",
                         attempted_at |-> now])
  /\ spc' = [spc EXCEPT ![s] = "legacyWait"]
  /\ UNCHANGED <<now, auctions, bids, users, bidState, cancelPc, srow, stx, serr, sat,
                 chainActive, calls, sent, settles>>
  /\ UNCHANGED <<sdone, receipts, jobState, wsState>>
  /\ UNCHANGED chain

\* The code goes on past `await tx.wait()` whatever the outcome short of a
\* revert.
ReceiptAssumed(outcome) == outcome # "reverted"

\* `await tx.wait()` resolves with the receipt; otherwise it throws.
ReceiptReturned(outcome) == outcome = "confirmed"

\* tx.wait() returns the receipt or throws.
AfterTxWait(s, outcome) ==
  /\ spc[s] \in {"legacyWait", "noBidsWait"}
  /\ outcome # "reverted" => CompleteAuctionSucceeds
  /\ chainActive' = IF outcome = "reverted" THEN chainActive ELSE FALSE
  /\ receipts' = IF outcome = "confirmed" THEN receipts \cup {stx[s]} ELSE receipts
  /\ IF ReceiptReturned(outcome)
       THEN /\ spc' = [spc EXCEPT ![s] =
                         IF spc[s] = "legacyWait" THEN "attemptUpdate" ELSE "noBidsUpdate"]
            /\ UNCHANGED serr
       ELSE Catch(s, "transaction failed")
  /\ UNCHANGED <<now, auctions, bids, users, bidState, cancelPc, attempts, srow, stx,
                 sat, calls, sent, settles>>
  /\ UNCHANGED <<sdone, jobState, wsState>>
  /\ UNCHANGED chain

\* UPDATE settlement_attempts SET status = 'success' WHERE tx_hash = $4.
AfterAttemptUpdate(s) ==
  /\ spc[s] = "attemptUpdate"
  /\ attempts' = [i \in DOMAIN attempts |->
                    IF attempts[i].tx_hash = stx[s]
                      THEN [attempts[i] EXCEPT !.status = "success"]
                      ELSE attempts[i]]
  /\ spc' = [spc EXCEPT ![s] = "legacyUpdate"]
  /\ UNCHANGED <<now, auctions, bids, users, bidState, cancelPc, srow, stx, serr, sat,
                 chainActive, calls, sent, settles>>
  /\ UNCHANGED <<sdone, receipts, jobState, wsState>>
  /\ UNCHANGED chain

\* UPDATE auctions SET status = 'completed', settlement_status = 'completed'
\* executes.  processERC7824Settlement goes on to the notifications; the
\* two other branches return, and so does settleAuction.
AfterCompleteUpdate(s) ==
  /\ spc[s] \in {"ercUpdate", "legacyUpdate", "noBidsUpdate"}
  /\ auctions' =
       IF spc[s] = "legacyUpdate"
         THEN [auctions EXCEPT
                 ![srow[s].id].status = "completed",
                 ![srow[s].id].settlement_status = "completed",
                 ![srow[s].id].settlement_tx_hash = stx[s],
                 ![srow[s].id].highest_bidder = srow[s].bidder_id,
                 ![srow[s].id].highest_bid = srow[s].winning_amount]
         ELSE [auctions EXCEPT
                 ![srow[s].id].status = "completed",
                 ![srow[s].id].settlement_status = "completed"]
  /\ IF spc[s] = "ercUpdate"
       THEN /\ spc' = [spc EXCEPT ![s] = "notifyQuery"]
            /\ UNCHANGED <<srow, stx, serr, sat, sdone>>
       ELSE SettleEnds(s)
  /\ UNCHANGED <<now, bids, users, bidState, cancelPc, attempts, chainActive, calls, sent,
                 settles>>
  /\ UNCHANGED <<receipts, jobState, wsState>>
  /\ UNCHANGED chain

\* sendAuctionCompletionNotifications: SELECT DISTINCT bidder_id returns;
\* auction_completed and auction_redirect go to every open client.
AfterNotifyQuery(s) ==
  /\ spc[s] = "notifyQuery"
  /\ sent' = sent \o
       << [type |-> "auction_completed", auctionId |-> srow[s].id,
           winner |-> srow[s].bidder_id, winningAmount |-> srow[s].winning_amount],
          [type |-> "auction_redirect", auctionId |-> srow[s].id,
           winner |-> UserId(""), winningAmount |-> 0] >>
  /\ SettleEnds(s)
  /\ UNCHANGED <<now, auctions, bids, users, bidState, cancelPc, attempts, chainActive,
                 calls, settles>>
  /\ UNCHANGED <<receipts, jobState, wsState>>
  /\ UNCHANGED chain

\* catch: UPDATE auctions SET settlement_status = 'failed' executes.
AfterCatchUpdate(s) ==
  /\ spc[s] = "catchUpdate"
  /\ auctions' = [auctions EXCEPT ![AuctionId].settlement_status = "failed"]
  /\ spc' = [spc EXCEPT ![s] = "catchInsert"]
  /\ UNCHANGED <<now, bids, users, bidState, cancelPc, attempts, srow, stx, serr, sat,
                 chainActive, calls, sent, settles>>
  /\ UNCHANGED <<sdone, receipts, jobState, wsState>>
  /\ UNCHANGED chain

\* catch: INSERT INTO settlement_attempts ... 'failed' executes and the
\* error is thrown again; the route answers 500.
AfterCatchInsert(s) ==
  /\ spc[s] = "catchInsert"
  /\ attempts' = Append(attempts,
                        [auction_id |-> AuctionId, winning_bid_id |-> UserId(""),
                         tx_hash |-> NoTx, status |-> "failed",
                         error_message |-> serr[s], attempted_at |-> now])
  /\ SettleEnds(s)
  /\ UNCHANGED <<now, auctions, bids, users, bidState, cancelPc, chainActive, calls, sent,
                 settles>>
  /\ UNCHANGED <<receipts, jobState, wsState>>
  /\ UNCHANGED chain

\* ---------------------------------------------------------- settlement job
\* getWinningBid: ORDER BY CAST(amount AS NUMERIC) DESC, timestamp ASC
\* LIMIT 1, returned as BidData with bidder = bids.bidder_id.
getWinningBid(auctionId) ==
  LET mine == {r \in bids : r.auction_id = auctionId}
      top == {r \in mine : \A o \in mine : o.amount <= r.amount}
      first == {r \in top : \A o \in top : r.timestamp <= o.timestamp}
  IN {[auctionId |-> auctionId, bidder |-> r.bidder_id, amount |-> r.amount,
       nonce |-> r.nonce, timestamp |-> r.timestamp, signature |-> r.signature] :
        r \in first}

\* The job's catch block is entered with this error.
JobCatch(message) ==
  /\ jpc' = "catchUpdate"
  /\ jerr' = message

\* cron fires (every 30 seconds): the SELECT of the expired auctions is sent.
JobStart ==
  /\ jpc = "idle"
  /\ jobs < MaxJobs
  /\ jobs' = jobs + 1
  /\ jpc' = "select"
  /\ UNCHANGED <<now, auctions, bids, users, bidState, cancelPc, settleState, jwin, jerr,
                 jat, wsState>>
  /\ UNCHANGED <<hpc, chain>>

\* The SELECT executes: end_time < NOW(), status = 'active' and
\* settlement_status not 'completed'.  For the auction it returns, the
\* UPDATE ... 'processing' is sent.
JobAfterSelect ==
  /\ jpc = "select"
  /\ IF /\ auctions[AuctionId].end_time < now
        /\ auctions[AuctionId].status = "active"
        /\ auctions[AuctionId].settlement_status # "completed"
       THEN jpc' = "mark" /\ jat' = now
       ELSE jpc' = "idle" /\ jat' = jat
  /\ UNCHANGED <<now, auctions, bids, users, bidState, cancelPc, settleState, jwin, jerr,
                 jobs, wsState>>
  /\ UNCHANGED <<hpc, chain>>

\* UPDATE ... 'processing' executes; getWinningBid sends its query.
JobAfterMark ==
  /\ jpc = "mark"
  /\ auctions' = [auctions EXCEPT
                    ![AuctionId].settlement_status = "processing",
                    ![AuctionId].settlement_attempted_at = jat]
  /\ jpc' = "winningBid"
  /\ UNCHANGED <<now, bids, users, bidState, cancelPc, settleState, jwin, jerr, jat, jobs,
                 wsState>>
  /\ UNCHANGED <<hpc, chain>>

\* getWinningBid returns.  Both branches go on with
\* marketplaceContract.completeAuction / .settleERC7824Auction, but the
\* module declares no marketplaceContract (it is a local of
\* getERC7824Service): evaluating the name throws a ReferenceError, which the
\* catch block of the loop catches; UPDATE ... 'failed' is sent.
JobAfterWinningBid ==
  /\ jpc = "winningBid"
  /\ IF getWinningBid(AuctionId) = {}
       THEN jwin' = NoWinningBid
       ELSE \E w \in getWinningBid(AuctionId) : jwin' = w
  /\ JobCatch("marketplaceContract is not defined")
  /\ UNCHANGED <<now, auctions, bids, users, bidState, cancelPc, settleState, jat, jobs,
                 wsState>>
  /\ UNCHANGED <<hpc, chain>>

\* catch: UPDATE auctions SET settlement_status = 'failed',
\* settlement_error = message executes; the loop and the run end.
JobAfterCatchUpdate ==
  /\ jpc = "catchUpdate"
  /\ auctions' = [auctions EXCEPT
                    ![AuctionId].settlement_status = "failed",
                    ![AuctionId].settlement_error = jerr]
  /\ jpc' = "idle"
  /\ jwin' = NoWinningBid
  /\ jerr' = ""
  /\ jat' = 0
  /\ UNCHANGED <<now, bids, users, bidState, cancelPc, settleState, jobs, wsState>>
  /\ UNCHANGED <<hpc, chain>>

\* The bids a store can hold when settlement is asked for, in the order in
\* which processBid accepted them: none, one, a higher second one, a second
\* one of the same amount, a bid of 0 on an auction that starts at 0, and a
\* winning record whose amount was altered in the store after it was signed.
StoredBids ==
  { <<>>,
    << MakeBid(AuctionId, "0xalice", 2, 1, 0, "valid") >>,
    << MakeBid(AuctionId, "0xalice", 2, 1, 0, "valid"),
       MakeBid(AuctionId, "0xBob", 4, 1, 1, "valid") >>,
    << MakeBid(AuctionId, "0xalice", 2, 1, 0, "valid"),
       MakeBid(AuctionId, "0xBob", 2, 1, 1, "valid") >>,
    << MakeBid(AuctionId, "0xalice", 0, 1, 0, "valid") >>,
    << MakeBid(AuctionId, "0xalice", 2, 1, 0, "valid"),
       MakeBid(AuctionId, "0xBob", 4, 1, 1, "alteredFields") >> }

ContractAuctionIds == {0, 7}

\* The store as processBid leaves it after accepting the bids of sb, for an
\* auction created with contract auction id cid (0: none).
InitSettle ==
  /\ now = 0
  /\ \E sb \in StoredBids : \E cid \in ContractAuctionIds :
       /\ bids = {BidRow(i, sb[i], NewAuctionRow.end_time) : i \in DOMAIN sb}
       /\ users = {sb[i].bidder : i \in DOMAIN sb}
       /\ auctions =
            [a \in {AuctionId} |->
               [NewAuctionRow EXCEPT
                  !.contract_auction_id = cid,
                  !.starting_price = IF sb = <<>> THEN @ ELSE sb[1].amount,
                  !.highest_bid = IF sb = <<>> THEN 0 ELSE sb[Len(sb)].amount,
                  !.highest_bidder = IF sb = <<>> THEN ZeroAddress
                                     ELSE sb[Len(sb)].bidder]]
  /\ cancelPc = "idle"
  /\ InitBidState
  /\ InitSettleState
  /\ InitJobState
  /\ InitWsState
  /\ InitChain

NextSettle ==
  \/ \E s \in SettleReqs : SettleStart(s)
  \/ \E s \in SettleReqs : AfterWinnerQuery(s)
  \/ \E s \in SettleReqs : AfterMarkProcessing(s)
  \/ \E s \in SettleReqs : \E ok \in BOOLEAN : AfterContractCall(s, ok)
  \/ \E s \in SettleReqs : AfterAttemptInsert(s)
  \/ \E s \in SettleReqs : \E o \in WaitOutcomes : AfterTxWait(s, o)
  \/ \E s \in SettleReqs : AfterAttemptUpdate(s)
  \/ \E s \in SettleReqs : AfterCompleteUpdate(s)
  \/ \E s \in SettleReqs : AfterNotifyQuery(s)
  \/ \E s \in SettleReqs : AfterCatchUpdate(s)
  \/ \E s \in SettleReqs : AfterCatchInsert(s)
  \/ JobStart
  \/ JobAfterSelect
  \/ JobAfterMark
  \/ JobAfterWinningBid
  \/ JobAfterCatchUpdate
  \/ Tick

SpecSettle == InitSettle /\ [][NextSettle]_vars

\* The channel state processBid leaves after accepting the bids sb in order.
ChannelAfter(sb) ==
  [auctionId |-> AuctionId, bids |-> sb,
   highestBid |-> IF sb = <<>> THEN 0 ELSE sb[Len(sb)].amount,
   highestBidder |-> IF sb = <<>> THEN ZeroAddress ELSE sb[Len(sb)].bidder,
   turnNum |-> Len(sb)]

\* The in-memory state the service can be in when settlement is asked for,
\* the store holding the bids sb: nothing (the process restarted), a channel
\* created anew after a restart, the channel that accepted the bids.
MemoryStates(sb) ==
  LET id == <<AuctionId, 0>>
  IN { [channels |-> <<>>, appChannel |-> NoChannel],
       [channels |-> (id :> initialState(AuctionId)), appChannel |-> id],
       [channels |-> (id :> ChannelAfter(sb)), appChannel |-> id] }

InitSettleMemory ==
  /\ now = 0
  /\ \E sb \in StoredBids : \E cid \in ContractAuctionIds : \E m \in MemoryStates(sb) :
       /\ bids = {BidRow(i, sb[i], NewAuctionRow.end_time) : i \in DOMAIN sb}
       /\ users = {sb[i].bidder : i \in DOMAIN sb}
       /\ auctions =
            [a \in {AuctionId} |->
               [NewAuctionRow EXCEPT
                  !.contract_auction_id = cid,
                  !.starting_price = IF sb = <<>> THEN @ ELSE sb[1].amount,
                  !.highest_bid = IF sb = <<>> THEN 0 ELSE sb[Len(sb)].amount,
                  !.highest_bidder = IF sb = <<>> THEN ZeroAddress
                                     ELSE sb[Len(sb)].bidder]]
       /\ channels = m.channels
       /\ appChannel = [a \in {AuctionId, GhostAuctionId} |->
                          IF a = AuctionId THEN m.appChannel ELSE NoChannel]
  /\ pc = [p \in Procs |-> "idle"]
  /\ req = [p \in Procs |-> NoBid]
  /\ chan = [p \in Procs |-> NoChannel]
  /\ cur = [p \in Procs |-> NoState]
  /\ ctx = [p \in Procs |-> NoCtx]
  /\ accepted = <<>>
  /\ last = [ok |-> FALSE, reason |-> <<"none", 0, 0>>]
  /\ submitted = 0
  /\ cancelPc = "idle"
  /\ InitSettleState
  /\ InitJobState
  /\ InitWsState
  /\ InitChain

\* Settle requests one at a time and the settlement job.
NextSettleMemory ==
  \/ SettleStart(1)
  \/ AfterWinnerQuery(1)
  \/ AfterMarkProcessing(1)
  \/ \E ok \in BOOLEAN : AfterContractCall(1, ok)
  \/ AfterAttemptInsert(1)
  \/ \E o \in WaitOutcomes : AfterTxWait(1, o)
  \/ AfterAttemptUpdate(1)
  \/ AfterCompleteUpdate(1)
  \/ AfterNotifyQuery(1)
  \/ AfterCatchUpdate(1)
  \/ AfterCatchInsert(1)
  \/ JobStart
  \/ JobAfterSelect
  \/ JobAfterMark
  \/ JobAfterWinningBid
  \/ JobAfterCatchUpdate
  \/ Tick

SpecSettleMemory == InitSettleMemory /\ [][NextSettleMemory]_vars

\* ------------------------------------------------ the settlement job alone
\* The runs of the settlement job and the passing of time.
NextJob ==
  \/ JobStart
  \/ JobAfterSelect
  \/ JobAfterMark
  \/ JobAfterWinningBid
  \/ JobAfterCatchUpdate
  \/ Tick

\* The schedule fires the job, each of its queries completes, time passes.
SpecJob ==
  /\ InitSettle
  /\ [][NextJob]_vars
  /\ WF_vars(JobStart)
  /\ WF_vars(JobAfterSelect)
  /\ WF_vars(JobAfterMark)
  /\ WF_vars(JobAfterWinningBid)
  /\ WF_vars(JobAfterCatchUpdate)
  /\ WF_vars(Tick)

\* ------------------------------------------------- cancel and settlement
\* An auction without contract auction id, with the bids processBid stored.
InitCancelSettle ==
  /\ InitSettle
  /\ auctions[AuctionId].contract_auction_id = 0

\* The seller's cancel request and settle requests, one at a time, for an
\* auction without contract auction id (no contract call is made for it).
NextCancelSettle ==
  \/ CancelSelect
  \/ CancelUpdate
  \/ SettleStart(1)
  \/ AfterWinnerQuery(1)
  \/ AfterMarkProcessing(1)
  \/ AfterCompleteUpdate(1)
  \/ AfterNotifyQuery(1)
  \/ AfterCatchUpdate(1)
  \/ AfterCatchInsert(1)
  \/ Tick

SpecCancelSettle == InitCancelSettle /\ [][NextCancelSettle]_vars

\* ------------------------------------------------------- health check job
\* Time is counted in units of ten minutes: INTERVAL '10 minutes' and
\* INTERVAL '30 days'.
StuckThreshold == 1
CleanupAge == 4320

\* WHERE settlement_status = 'processing' (whatever the age).
IsProcessing(row, t) == row.settlement_status = "processing"

\* WHERE settlement_status = 'processing'
\*   AND settlement_attempted_at < NOW() - INTERVAL '10 minutes'
IsStuck(row, t) ==
  /\ row.settlement_status = "processing"
  /\ row.settlement_attempted_at < t - StuckThreshold

\* cron fires (every five minutes): the SELECT of the stuck settlements is
\* sent.
HealthStart ==
  /\ hpc = "idle"
  /\ hpc' = "select"
  /\ UNCHANGED <<now, auctions, bids, users, bidState, cancelPc, settleState, jpc, jwin,
                 jerr, jat, jobs, wsState>>
  /\ UNCHANGED chain

\* The SELECT executes: with a row the reset is sent, without one the
\* clean-up is.
HealthAfterSelect ==
  /\ hpc = "select"
  /\ hpc' = IF \E a \in DOMAIN auctions : IsStuck(auctions[a], now)
              THEN "reset" ELSE "cleanup"
  /\ UNCHANGED <<now, auctions, bids, users, bidState, cancelPc, settleState, jpc, jwin,
                 jerr, jat, jobs, wsState>>
  /\ UNCHANGED chain

\* UPDATE auctions SET settlement_status = NULL, settlement_attempted_at =
\* NULL WHERE (the same condition, as it holds now) executes; the clean-up
\* is sent.
HealthAfterReset ==
  /\ hpc = "reset"
  /\ auctions' = [a \in DOMAIN auctions |->
                    IF IsStuck(auctions[a], now)
                      THEN [auctions[a] EXCEPT !.settlement_status = "null",
                                               !.settlement_attempted_at = 0]
                      ELSE auctions[a]]
  /\ hpc' = "cleanup"
  /\ UNCHANGED <<now, bids, users, bidState, cancelPc, settleState, jpc, jwin, jerr, jat,
                 jobs, wsState>>
  /\ UNCHANGED chain

\* UPDATE auctions SET settlement_error = NULL WHERE settlement_status =
\* 'failed' AND settlement_attempted_at < NOW() - INTERVAL '30 days'
\* executes; the run ends.
HealthAfterCleanup ==
  /\ hpc = "cleanup"
  /\ auctions' = [a \in DOMAIN auctions |->
                    IF /\ auctions[a].settlement_status = "failed"
                       /\ auctions[a].settlement_attempted_at < now - CleanupAge
                      THEN [auctions[a] EXCEPT !.settlement_error = ""]
                      ELSE auctions[a]]
  /\ hpc' = "idle"
  /\ UNCHANGED <<now, bids, users, bidState, cancelPc, settleState, jpc, jwin, jerr, jat,
                 jobs, wsState>>
  /\ UNCHANGED chain

\* An auction that ended before the clock's origin, with one bid stored and
\* contract auction id cid (0: none); nothing has tried to settle it.
InitHealth ==
  /\ now = 0
  /\ \E cid \in ContractAuctionIds :
       LET b == MakeBid(AuctionId, "0xalice", 2, 1, -2, "valid")
       IN /\ bids = {BidRow(1, b, -1)}
          /\ users = {b.bidder}
          /\ auctions =
               [a \in {AuctionId} |->
                  [NewAuctionRow EXCEPT
                     !.start_time = -2, !.end_time = -1,
                     !.contract_auction_id = cid,
                     !.highest_bid = b.amount, !.highest_bidder = b.bidder]]
  /\ cancelPc = "idle"
  /\ InitBidState
  /\ InitSettleState
  /\ InitJobState
  /\ InitWsState
  /\ InitChain

\* Settle requests one at a time, the settlement job and the health check
\* job.
NextHealth ==
  \/ SettleStart(1)
  \/ AfterWinnerQuery(1)
  \/ AfterMarkProcessing(1)
  \/ \E ok \in BOOLEAN : AfterContractCall(1, ok)
  \/ AfterAttemptInsert(1)
  \/ \E o \in WaitOutcomes : AfterTxWait(1, o)
  \/ AfterAttemptUpdate(1)
  \/ AfterCompleteUpdate(1)
  \/ AfterNotifyQuery(1)
  \/ AfterCatchUpdate(1)
  \/ AfterCatchInsert(1)
  \/ JobStart
  \/ JobAfterSelect
  \/ JobAfterMark
  \/ JobAfterWinningBid
  \/ JobAfterCatchUpdate
  \/ HealthStart
  \/ HealthAfterSelect
  \/ HealthAfterReset
  \/ HealthAfterCleanup
  \/ Tick

\* The schedule fires the health check again and again and each of its
\* queries completes.
SpecHealth ==
  /\ InitHealth
  /\ [][NextHealth]_vars
  /\ WF_vars(HealthStart)
  /\ WF_vars(HealthAfterSelect)
  /\ WF_vars(HealthAfterReset)
  /\ WF_vars(HealthAfterCleanup)

\* ------------------------------------ the marketplace contract's functions
\* A call reverts: the storage and the balance stay, the reason is kept.
Revert(ch, fn, reason) ==
  [ch EXCEPT !.last = [NoCall EXCEPT !.fn = fn, !.reason = reason]]

\* require(_newFee <= MAX_PLATFORM_FEE) without the bound.
FeeAny(f) == TRUE

\* require(_newFee <= MAX_PLATFORM_FEE, "Fee too high")
FeeAllowed(f) == f <= MAX_PLATFORM_FEE

setPlatformFee(ch, f) ==
  IF ~FeeAllowed(f) THEN Revert(ch, "setPlatformFee", "Fee too high")
  ELSE [ch EXCEPT !.platformFee = f,
                  !.last = [NoCall EXCEPT !.fn = "setPlatformFee", !.ok = TRUE]]

\* placeBid, payable: the value becomes the highest bid and the previous
\* highest bid is sent back to its bidder.
placeBid(ch, t, sender, value) ==
  LET a == ch.auction
      fn == "placeBid"
  IN IF ~a.isActive THEN Revert(ch, fn, "Auction is not active")
     ELSE IF a.isERC7824 THEN Revert(ch, fn, "Use ERC-7824 bidding for this auction")
     ELSE IF ~(t >= a.startTime) THEN Revert(ch, fn, "Auction has not started")
     ELSE IF ~(t <= a.endTime) THEN Revert(ch, fn, "Auction has ended")
     ELSE IF ~(value >= a.startingPrice)
       THEN Revert(ch, fn, "Bid must be at least starting price")
     ELSE IF ~(value >= a.highestBid + a.minBidIncrement)
       THEN Revert(ch, fn, "Bid must be higher than current highest bid")
     ELSE [ch EXCEPT
             !.auction.highestBidder = sender,
             !.auction.highestBid = value,
             !.balance = ch.balance + value
                         - (IF a.highestBidder # ZeroAddress THEN a.highestBid ELSE 0),
             !.received = IF a.highestBidder # ZeroAddress
                            THEN [ch.received EXCEPT ![a.highestBidder] = @ + a.highestBid]
                            ELSE ch.received,
             !.last = [NoCall EXCEPT !.fn = fn, !.ok = TRUE, !.amount = value]]

\* verifyERC7824Bid: the reason of the require that fails, "ok" when the
\* recovered signer is the bidder, "signer" when it is not.
verifyERC7824Bid(ch, t, b) ==
  LET a == ch.auction
  IN IF ~a.isActive THEN "Auction is not active"
     ELSE IF ~a.isERC7824 THEN "Not an ERC-7824 auction"
     ELSE IF ~(t >= a.startTime) THEN "Auction has not started"
     ELSE IF ~(t <= a.endTime) THEN "Auction has ended"
     ELSE IF ~(b.amount >= a.startingPrice) THEN "Bid must be at least starting price"
     ELSE IF ~(b.amount >= a.highestBid + a.minBidIncrement)
       THEN "Bid must be higher than current highest bid"
     ELSE IF ~(b.nonce > ch.bidderNonces[getAddress(b.bidder)]) THEN "Invalid nonce"
     ELSE IF validateBidSignature(b) THEN "ok" ELSE "signer"

\* The winner's branch of settleERC7824Auction and of completeAuction: the
\* fee, the NFT to the winner, the funds to the seller and to the owner.
\* Arithmetic is checked (Solidity 0.8): an underflow reverts; a call with
\* more value than the balance fails.
PayOut(ch, done, fn, winner, amount) ==
  LET feeAmount == (amount * done.platformFee) \div BasisPoints
      sellerAmount == amount - feeAmount
  IN IF sellerAmount < 0 THEN Revert(ch, fn, "panic: arithmetic underflow")
     ELSE IF done.balance < sellerAmount THEN Revert(ch, fn, "Transfer to seller failed")
     ELSE IF done.balance - sellerAmount < feeAmount
       THEN Revert(ch, fn, "Transfer to platform failed")
     ELSE [done EXCEPT
             !.nftOwner = winner,
             !.balance = done.balance - sellerAmount - feeAmount,
             !.received = [done.received EXCEPT
                             ![done.auction.seller] = @ + sellerAmount,
                             ![Owner] = done.received[Owner] + feeAmount],
             !.last = [fn |-> fn, ok |-> TRUE, reason |-> "", winner |-> winner,
                       amount |-> amount, rate |-> done.platformFee,
                       feeAmount |-> feeAmount, sellerAmount |-> sellerAmount,
                       toSeller |-> sellerAmount, toOwner |-> feeAmount]]

\* The branch without a winner: the NFT goes back to the seller.
ReturnNft(done, fn) ==
  [done EXCEPT !.nftOwner = done.auction.seller,
               !.last = [NoCall EXCEPT !.fn = fn, !.ok = TRUE]]

\* settleERC7824Auction (not payable) with the winning bid b; b.bidder is
\* the zero address when there is no winner.
settleERC7824Auction(ch, t, b) ==
  LET a == ch.auction
      fn == "settleERC7824Auction"
      winner == IF b.bidder = ZeroAddress THEN ZeroAddress ELSE getAddress(b.bidder)
      hasWinner == winner # ZeroAddress /\ b.amount > 0
      verified == verifyERC7824Bid(ch, t, b)
      bidHash == BidHash(b)
      done == [ch EXCEPT
                 !.auction.isActive = FALSE,
                 !.auction.highestBidder = winner,
                 !.auction.highestBid = b.amount,
                 !.processedBids = IF hasWinner THEN @ \cup {bidHash} ELSE @,
                 !.bidderNonces = IF hasWinner THEN [@ EXCEPT ![winner] = b.nonce] ELSE @]
  IN IF ~a.isActive THEN Revert(ch, fn, "Auction is not active")
     ELSE IF ~a.isERC7824 THEN Revert(ch, fn, "Not an ERC-7824 auction")
     ELSE IF ~(t > a.endTime) THEN Revert(ch, fn, "Auction has not ended")
     ELSE IF hasWinner /\ verified \notin {"ok", "signer"} THEN Revert(ch, fn, verified)
     ELSE IF hasWinner /\ verified = "signer"
       THEN Revert(ch, fn, "Invalid winning bid signature")
     ELSE IF hasWinner /\ bidHash \in ch.processedBids
       THEN Revert(ch, fn, "Bid already processed")
     ELSE IF hasWinner THEN PayOut(ch, done, fn, winner, b.amount)
     ELSE ReturnNft(done, fn)

\* completeAuction, for an auction that is not an ERC-7824 one.
completeAuction(ch, t) ==
  LET a == ch.auction
      fn == "completeAuction"
      done == [ch EXCEPT !.auction.isActive = FALSE]
  IN IF ~a.isActive THEN Revert(ch, fn, "Auction is not active")
     ELSE IF a.isERC7824 THEN Revert(ch, fn, "Use settleERC7824Auction for ERC-7824 auctions")
     ELSE IF ~(t > a.endTime) THEN Revert(ch, fn, "Auction has not ended")
     ELSE IF a.highestBidder # ZeroAddress
       THEN PayOut(ch, done, fn, a.highestBidder, a.highestBid)
     ELSE ReturnNft(done, fn)

\* The fees the owner asks for, the values bidders send with placeBid and
\* the winning bids settleERC7824Auction is called with.
Fees == {0, 250, MAX_PLATFORM_FEE, MAX_PLATFORM_FEE + 1}
BidValues == {9, 10, 39, 12345}

SettleInputs ==
  {MakeBid(AuctionId, who, amt, 1, 0, kind) :
     who \in Bidders, amt \in {9, 10}, kind \in {"valid", "otherSigner"}}
  \cup {MakeBid(AuctionId, ZeroAddress, 0, 0, 0, "malformed")}

\* Transactions.
CallSetPlatformFee(f) ==
  /\ chain' = setPlatformFee(chain, f)
  /\ UNCHANGED <<now, auctions, bids, users, bidState, cancelPc, settleState, jobState,
                 wsState>>

CallPlaceBid(sender, value) ==
  /\ chain' = placeBid(chain, now, sender, value)
  /\ UNCHANGED <<now, auctions, bids, users, bidState, cancelPc, settleState, jobState,
                 wsState>>

CallSettleERC7824Auction(b) ==
  /\ chain' = settleERC7824Auction(chain, now, b)
  /\ UNCHANGED <<now, auctions, bids, users, bidState, cancelPc, settleState, jobState,
                 wsState>>

CallCompleteAuction ==
  /\ chain' = completeAuction(chain, now)
  /\ UNCHANGED <<now, auctions, bids, users, bidState, cancelPc, settleState, jobState,
                 wsState>>

\* The contract with an ERC-7824 auction or a legacy one, just created.
InitContract ==
  /\ now = 0
  /\ \E erc \in BOOLEAN : chain = Deployed(erc)
  /\ auctions = [a \in {AuctionId} |-> NewAuctionRow]
  /\ bids = {}
  /\ users = {}
  /\ cancelPc = "idle"
  /\ InitBidState
  /\ InitSettleState
  /\ InitJobState
  /\ InitWsState

NextContract ==
  \/ \E f \in Fees : CallSetPlatformFee(f)
  \/ \E who \in {"0xAlice", "0xBob"} : \E v \in BidValues : CallPlaceBid(who, v)
  \/ \E b \in SettleInputs : CallSettleERC7824Auction(b)
  \/ CallCompleteAuction
  \/ Tick

SpecContract == InitContract /\ [][NextContract]_vars

\* ------------------------------------------------------------ two auctions
AuctionIds == {AuctionId, OtherAuctionId}

\* The request bodies posted for the two auctions: Alice's bid on either,
\* signed by her or by somebody else.
TwoAuctionInputs(t) ==
  {MakeBid(a, "0xalice", MaxAmount, 1, t, kind) :
     a \in AuctionIds, kind \in {"valid", "otherSigner"}}

\* The first auction has just been created, with contract auction id cid
\* (0: none); the second one has accepted a bid on the channel the route
\* created for it.
InitTwoAuctions ==
  /\ now = 0
  /\ \E cid \in ContractAuctionIds :
       LET b == MakeBid(OtherAuctionId, "0xBob", 2, 1, 0, "valid")
           id == NewChannelId(OtherAuctionId)
       IN /\ bids = {BidRow(1, b, NewAuctionRow.end_time)}
          /\ users = {b.bidder}
          /\ auctions =
               [a \in AuctionIds |->
                  IF a = AuctionId
                    THEN [NewAuctionRow EXCEPT !.contract_auction_id = cid]
                    ELSE [NewAuctionRow EXCEPT !.highest_bid = b.amount,
                                               !.highest_bidder = b.bidder]]
          /\ channels = (id :> newState(initialState(OtherAuctionId), b))
          /\ appChannel = [a \in AuctionIds \cup {GhostAuctionId} |->
                             IF a = OtherAuctionId THEN id ELSE NoChannel]
  /\ pc = [p \in Procs |-> "idle"]
  /\ req = [p \in Procs |-> NoBid]
  /\ chan = [p \in Procs |-> NoChannel]
  /\ cur = [p \in Procs |-> NoState]
  /\ ctx = [p \in Procs |-> NoCtx]
  /\ accepted = <<>>
  /\ last = [ok |-> FALSE, reason |-> <<"none", 0, 0>>]
  /\ submitted = 0
  /\ cancelPc = "idle"
  /\ InitSettleState
  /\ InitJobState
  /\ clients = [o \in Observers |-> "none"]
  /\ subs = [o \in Observers |-> {}]
  /\ wsConnections = [a \in AuctionIds \cup {GhostAuctionId} |-> {}]
  /\ inbox = [o \in Observers |-> <<>>]
  /\ broadcasts = <<>>
  /\ InitChain

\* Bid requests on both auctions, up to two in flight at once, and settle
\* requests for the first auction, one at a time.
NextTwoAuctions ==
  \/ \E p \in Procs : CanSubmit(p) /\ \E b \in TwoAuctionInputs(now) : Submit(p, b)
  \/ \E p \in Procs : AfterAuctionQuery(p)
  \/ \E p \in Procs : AfterEndTimeQuery(p)
  \/ \E p \in Procs : AfterUserQuery(p)
  \/ \E p \in Procs : AfterUserInsert(p)
  \/ \E p \in Procs : AfterBidInsert(p)
  \/ \E p \in Procs : AfterAuctionUpdate(p)
  \/ SettleStart(1)
  \/ AfterWinnerQuery(1)
  \/ AfterMarkProcessing(1)
  \/ \E ok \in BOOLEAN : AfterContractCall(1, ok)
  \/ AfterAttemptInsert(1)
  \/ \E o \in WaitOutcomes : AfterTxWait(1, o)
  \/ AfterAttemptUpdate(1)
  \/ AfterCompleteUpdate(1)
  \/ AfterNotifyQuery(1)
  \/ AfterCatchUpdate(1)
  \/ AfterCatchInsert(1)
  \/ Tick

SpecTwoAuctions == InitTwoAuctions /\ [][NextTwoAuctions]_vars

\* ------------------------------------------------------------ claims: bids
Row == auctions[AuctionId]

HasChannel == appChannel[AuctionId] # NoChannel

Channel == channels[appChannel[AuctionId]]

SameBidder(a, b) == getAddress(a) = getAddress(b)

Idx == 1..Len(accepted)

\* Neither order of the two bids is a valid sequence of next bids.
OnlyOneCanBeNext(x, y) ==
  /\ x.bid.amount < y.bid.amount + Row.min_bid_increment
  /\ y.bid.amount < x.bid.amount + Row.min_bid_increment

\* C1: two calls of processBid that both read the channel before either
\* wrote it, with different bids valid against the same highest bid of which
\* only one can be the next bid, are never both accepted.
C1_OverlappingBidsNotBothAccepted ==
  \A i, j \in Idx :
    (/\ i < j
     /\ accepted[j].seen < i
     /\ accepted[i].bid # accepted[j].bid
     /\ accepted[i].base = accepted[j].base
     /\ OnlyOneCanBeNext(accepted[i], accepted[j]))
    => FALSE

\* C2: no bid is accepted whose nonce is less than or equal to the nonce of
\* a bid accepted earlier from the same bidder.
C2_StaleNonceRejected ==
  \A j \in Idx : \A i \in 1..accepted[j].seen :
    SameBidder(accepted[i].bid.bidder, accepted[j].bid.bidder)
      => accepted[j].bid.nonce > accepted[i].bid.nonce

\* C3: no bid submitted outside [start_time, end_time] is accepted.
C3_LateBidRejected ==
  \A j \in Idx : Row.start_time <= accepted[j].at /\ accepted[j].at <= Row.end_time

IsDuplicate(p) == \E i \in 1..ctx[p].seen : accepted[i].bid = req[p]

Finishes(p) == pc[p] # "idle" /\ pc'[p] = "idle"

\* C4: a call that submits again the payload of an accepted bid ends in
\* success and leaves the channel and the bids table as they were.
C4_DuplicateIsNoOpSuccess ==
  [][\A p \in Procs :
       (IsDuplicate(p) /\ Finishes(p))
         => (last'.ok /\ channels' = channels /\ bids' = bids)]_vars

\* The minimum as the claim words it: the starting price while the channel
\* holds no bid, the highest bid plus the increment afterwards.
RequiredMinimum(st) ==
  IF Len(st.bids) = 0 THEN Row.starting_price
  ELSE st.highestBid + Row.min_bid_increment

\* C5: processBid compares the amount with the starting price while the
\* channel it read holds no bid and with highest bid + increment afterwards;
\* an amount equal to that minimum passes, a lower one is rejected with a
\* reason that names the minimum, and a bid that passed is accepted.
C5_AmountRule ==
  [][\A p \in Procs :
       /\ (AfterAuctionQuery(p) /\ req[p].auctionId = AuctionId) =>
            IF req[p].amount >= RequiredMinimum(cur[p])
              THEN pc'[p] = "endTimeQuery"
              ELSE /\ pc'[p] = "idle"
                   /\ last' = Rejected(<<"Bid amount too low",
                                         RequiredMinimum(cur[p]), req[p].amount>>)
       /\ (pc[p] \notin {"idle", "auctionQuery"} /\ Finishes(p)) =>
            /\ last'.ok
            /\ Len(accepted') = Len(accepted) + 1
            /\ accepted'[Len(accepted')].bid = req[p]]_vars

MaxOf(S) == CHOOSE x \in S : \A y \in S : y <= x
MinOf(S) == CHOOSE x \in S : \A y \in S : x <= y

MaxAccepted == MaxOf({accepted[i].bid.amount : i \in Idx})

\* The accepted bids of maximum amount with the earliest timestamp.
Leaders ==
  LET top == {i \in Idx : accepted[i].bid.amount = MaxAccepted}
      first == MinOf({accepted[i].bid.timestamp : i \in top})
  IN {accepted[i].bid : i \in {k \in top : accepted[k].bid.timestamp = first}}

\* C6: once a bid has been accepted, the channel's highest bid and bidder
\* are those of the accepted bid of maximum amount, earliest timestamp first.
C6_HighestIsMaxAccepted ==
  Len(accepted) > 0 =>
    /\ Channel.highestBid = MaxAccepted
    /\ \E b \in Leaders : Channel.highestBidder = b.bidder

\* C7: turnNum is the number of accepted bids.
C7_TurnCountsAccepted == HasChannel => Channel.turnNum = Len(accepted)

\* C8: no bid submitted while the auction is not active is accepted.
C8_InactiveAuctionRejectsBids ==
  \A j \in Idx : accepted[j].status = "active"

\* The signature is by the claimed bidder, over exactly the five fields of
\* the bid, under the verifier's domain.
GenuineSignature(b) ==
  /\ b.signature.kind = "sig"
  /\ SameBidder(b.signature.signer, b.bidder)
  /\ b.signature.value.auctionId = b.auctionId
  /\ SameBidder(b.signature.value.bidder, b.bidder)
  /\ b.signature.value.amount = b.amount
  /\ b.signature.value.nonce = b.nonce
  /\ b.signature.value.timestamp = b.timestamp
  /\ b.signature.domain.name = "NFTMarketplaceAuction"
  /\ b.signature.domain.version = "1"
  /\ b.signature.domain.chainId = 11155111
  /\ b.signature.domain.verifyingContract = "marketplace"

\* A request is answered by the step that took it in: processBid returned
\* before its first query.
SubmitRejected(p) == CanSubmit(p) /\ submitted' = submitted + 1 /\ pc'[p] = "idle"

\* C9: only a bid whose signature is genuine gets past validateBidSignature
\* (every bid in flight or accepted is genuine); a bid that does not get
\* past it is rejected with the invalid-signature reason, without any change
\* to the store, to the accepted bids or to the state of a channel.
C9_OnlyGenuineSignatures ==
  /\ [][\A p \in Procs :
          SubmitRejected(p) =>
            /\ last' = Rejected(<<"Invalid bid signature", 0, 0>>)
            /\ bids' = bids /\ users' = users /\ auctions' = auctions
            /\ accepted' = accepted
            /\ \A c \in DOMAIN channels : c \in DOMAIN channels' /\ channels'[c] = channels[c]
            /\ \A c \in DOMAIN channels' \ DOMAIN channels :
                 channels'[c].bids = <<>> /\ channels'[c].turnNum = 0]_vars
  /\ [](\A p \in Procs : pc[p] # "idle" => GenuineSignature(req[p]))
  /\ [](\A j \in Idx : GenuineSignature(accepted[j].bid))

\* A bid with a bad signature was rejected after a bid of Alice, who sends
\* her address in lower case, had been accepted.
C9_Witness ==
  /\ last = Rejected(<<"Invalid bid signature", 0, 0>>)
  /\ \E j \in Idx : accepted[j].bid.bidder = "0xalice"

\* ------------------------------------------------------ claims: settlement
SettleSteps(s) == spc[s] # "idle" /\ spc'[s] # spc[s]

\* C10: a settleAuction invoked before the auction's end time changes
\* nothing in the auction's row and sends no contract call.
C10_EarlySettleRejected ==
  [][\A s \in SettleReqs :
       (SettleSteps(s) /\ sat[s] < Row.end_time)
         => (auctions' = auctions /\ calls' = calls)]_vars

\* A settle request returns (or throws) / a job run that marked the
\* auction is over.
SettleReturns(s) == spc[s] # "idle" /\ spc'[s] = "idle"

JobRunEnds == jpc \notin {"idle", "select"} /\ jpc' = "idle"

\* C11: settling an expired auction that has no recorded bid, by a settle
\* request or by the job, ends with status and settlement_status completed
\* and no winner recorded.
C11_NoBidsSettlesCompleted ==
  [][(/\ bids = {}
      /\ \/ \E s \in SettleReqs : SettleReturns(s) /\ sat[s] > Row.end_time
         \/ JobRunEnds)
       => /\ auctions'[AuctionId].status = "completed"
          /\ auctions'[AuctionId].settlement_status = "completed"
          /\ auctions'[AuctionId].highest_bidder = ZeroAddress]_vars

\* The stored bids of the auction with the maximum amount and, among
\* them, the earliest timestamp.
TopEarliest ==
  LET mine == {r \in bids : r.auction_id = AuctionId}
      m == MaxOf({r.amount : r \in mine})
      t == MinOf({r.timestamp : r \in {x \in mine : x.amount = m}})
  IN {r \in mine : r.amount = m /\ r.timestamp = t}

\* C12: the winner read by settleAuction and the one returned by
\* getWinningBid is a stored bid of the maximum amount and, among those,
\* of the earliest timestamp.
C12_WinnerIsMaxEarliest ==
  /\ \A s \in SettleReqs :
       srow[s] # NoJoinedRow =>
         \E r \in TopEarliest :
           /\ srow[s].bidder_id = r.bidder_id
           /\ srow[s].winning_amount = r.amount
           /\ srow[s].signature = r.signature
  /\ jwin # NoWinningBid =>
       \E r \in TopEarliest :
         /\ jwin.bidder = r.bidder_id
         /\ jwin.amount = r.amount
         /\ jwin.timestamp = r.timestamp

\* Two stored bids tie at the maximum amount and both a settle request and
\* the job have read the winner.
C12_Witness ==
  /\ \E r1, r2 \in bids :
       /\ r1.timestamp < r2.timestamp
       /\ r1.amount = r2.amount
       /\ \A o \in bids : o.amount <= r1.amount
  /\ \E s \in SettleReqs : srow[s] # NoJoinedRow
  /\ jwin # NoWinningBid

\* The stored record still verifies: its signature is the bidder's over
\* the five stored fields.
RowVerifies(r) ==
  validateBidSignature([auctionId |-> r.auction_id, bidder |-> r.bidder_id[2],
                        amount |-> r.amount, nonce |-> r.nonce,
                        timestamp |-> r.timestamp, signature |-> r.signature])

AlteredWinner == bids # {} /\ \E r \in TopEarliest : ~RowVerifies(r)

\* C13: when the winning record no longer verifies, a settle request on
\* the expired auction sends no contract call and never completes the
\* auction, and it ends with settlement_status failed and a recorded error.
C13_AlteredRecordFailsSettlement ==
  [][\A s \in SettleReqs :
       (AlteredWinner /\ sat[s] > Row.end_time)
         => /\ SettleSteps(s) =>
                 (calls' = calls /\ auctions'[AuctionId].status # "completed")
            /\ SettleReturns(s) =>
                 /\ auctions'[AuctionId].settlement_status = "failed"
                 /\ \E i \in DOMAIN attempts' :
                      /\ attempts'[i].status = "failed"
                      /\ attempts'[i].error_message # ""]_vars

Quiescent == jpc = "idle" /\ \A s \in SettleReqs : spc[s] = "idle"

\* C14: a settlement that fails after it started leaves settlement_status
\* failed and a failed settlement attempt carrying the error message, for
\* a settle request and for the job alike; with nothing in flight the
\* auction is never left in processing.
C14_FailureRecordedWithAttempt ==
  /\ [][\A s \in SettleReqs :
          (spc[s] = "catchInsert" /\ spc'[s] = "idle")
            => /\ auctions'[AuctionId].settlement_status = "failed"
               /\ \E i \in DOMAIN attempts' :
                    /\ attempts'[i].status = "failed"
                    /\ attempts'[i].error_message = serr[s]]_vars
  /\ [][(jpc = "catchUpdate" /\ jpc' = "idle")
            => /\ auctions'[AuctionId].settlement_status = "failed"
               /\ \E i \in DOMAIN attempts' :
                    /\ attempts'[i].status = "failed"
                    /\ attempts'[i].error_message = jerr]_vars
  /\ [](Quiescent => Row.settlement_status # "processing")

SuccessAttempts == {i \in DOMAIN attempts : attempts[i].status = "success"}

\* The auction is completed, by a settlement that started after its end,
\* and a stored bid of a positive amount won it.
CompletedWithWinner ==
  /\ Row.status = "completed"
  /\ Row.settlement_status = "completed"
  /\ Row.settlement_attempted_at > Row.end_time
  /\ \E r \in bids : r.amount > 0

\* C15: at most one settlement attempt of the auction is in status
\* success, and an auction completed with a winner has exactly one.
C15_ExactlyOneSuccess ==
  /\ Cardinality(SuccessAttempts) <= 1
  /\ CompletedWithWinner => Cardinality(SuccessAttempts) = 1

\* C16: a settle request invoked on an auction whose settlement, started
\* after the auction's end, is completed sends no contract call and leaves
\* status and settlement_status completed at every step.
C16_ResettleIsIdempotent ==
  [][\A s \in SettleReqs :
       (/\ sdone[s]
        /\ sat[s] > Row.end_time
        /\ Row.settlement_attempted_at > Row.end_time
        /\ SettleSteps(s))
         => /\ calls' = calls
            /\ auctions'[AuctionId].status = "completed"
            /\ auctions'[AuctionId].settlement_status = "completed"]_vars

\* C17: a settle request that completed the auction, by whichever branch,
\* does not return before it has sent auction_completed with the auction
\* id, the winner and the winning amount.
C17_CompletionIsBroadcast ==
  [][\A s \in SettleReqs :
       (spc[s] \in {"legacyUpdate", "noBidsUpdate", "notifyQuery"} /\ SettleReturns(s))
         => \E i \in DOMAIN sent' :
              /\ i > Len(sent)
              /\ sent'[i].type = "auction_completed"
              /\ sent'[i].auctionId = srow[s].id
              /\ sent'[i].winner = srow[s].bidder_id
              /\ sent'[i].winningAmount = srow[s].winning_amount]_vars

\* The edges the settlement status may take.
SettlementEdges ==
  { <<"null", "processing">>, <<"processing", "completed">>,
    <<"processing", "failed">>, <<"failed", "processing">> }

\* C22: once the auction has ended, its settlement_status changes only
\* from none to processing, from processing to completed or failed, and
\* from failed to processing.
C22_SettlementStatusEdges ==
  [][(/\ now > Row.end_time
      /\ auctions'[AuctionId].settlement_status # Row.settlement_status)
       => <<Row.settlement_status, auctions'[AuctionId].settlement_status>>
            \in SettlementEdges]_vars

\* C23: when a settle request on the expired auction sends the contract
\* call for a winning bid, a pending settlement attempt of the auction is
\* already recorded.
C23_AttemptRecordedBeforeTransfer ==
  [][\A s \in SettleReqs :
       (/\ Len(calls') = Len(calls) + 1
        /\ calls'[Len(calls')].by = s
        /\ srow[s].winning_amount > 0
        /\ sat[s] > Row.end_time)
         => \E i \in DOMAIN attempts :
              /\ attempts[i].auction_id = srow[s].id
              /\ attempts[i].status = "pending"]_vars

\* C24: on the paths that call the contract, an attempt in status success
\* is for a transaction whose wait returned a receipt, and the auction is
\* completed only once such a receipt has been returned.
C24_SuccessOnlyAfterReceipt ==
  /\ \A i \in DOMAIN attempts :
       attempts[i].status = "success" => attempts[i].tx_hash \in receipts
  /\ (Row.contract_auction_id # 0 /\ Row.settlement_status = "completed")
       => receipts # {}
  /\ (Row.contract_auction_id # 0 /\ Row.status = "completed")
       => receipts # {}

\* An auction with a contract_auction_id is completed and has an attempt
\* in status success.
C24_Witness ==
  /\ Row.contract_auction_id # 0
  /\ Row.status = "completed"
  /\ Row.settlement_status = "completed"
  /\ \E i \in DOMAIN attempts : attempts[i].status = "success"

\* C25: once the settle request that inserted a pending attempt, after the
\* auction's end, has ended, the attempt is in status success or failed.
C25_NoAttemptStaysPending ==
  \A i \in DOMAIN attempts :
    (attempts[i].status = "pending" /\ attempts[i].attempted_at > Row.end_time)
      => \E s \in SettleReqs : spc[s] # "idle" /\ stx[s] = attempts[i].tx_hash

\* C30: whatever the in-memory channel state (none, a fresh channel, the
\* channel that accepted the bids), the winner a settle request or the job
\* reads is the one the bids table gives, the row a confirmed settlement
\* writes carries that winner, and no step of settlement changes a channel.
C30_SettlementReadsStoreOnly ==
  /\ [](\A s \in SettleReqs :
          srow[s] # NoJoinedRow =>
            \E r \in TopEarliest :
              srow[s] = JoinedRow(AuctionId, r, srow[s].marked_at))
  /\ [](jwin # NoWinningBid => jwin \in getWinningBid(AuctionId))
  /\ [](Row.settlement_tx_hash # "" =>
          \E r \in TopEarliest :
            Row.highest_bid = r.amount /\ Row.highest_bidder = r.bidder_id)
  /\ [][channels' = channels /\ appChannel' = appChannel]_vars

\* The channel names another highest bidder than the bids table does, and
\* the auction has been completed with a confirmed transaction.
C30_Witness ==
  /\ HasChannel
  /\ \A r \in TopEarliest : UserId(Channel.highestBidder) # r.bidder_id
  /\ Row.status = "completed"
  /\ Row.settlement_tx_hash # ""

\* --------------------------------------------- claims: discard and rebuild
\* C21: with the in-memory state discarded at any moment, a bid accepted
\* on an auction with a positive starting price and a recorded highest bid
\* is still at least that highest bid plus the minimum increment.
C21_DiscardKeepsDecisions ==
  [][(/\ Len(accepted') = Len(accepted) + 1
      /\ Row.starting_price > 0
      /\ Row.highest_bid > 0)
       => accepted'[Len(accepted')].bid.amount
            >= Row.highest_bid + Row.min_bid_increment]_vars

\* ----------------------------------------------- claims: the auction's row
NoBidInFlight == \A p \in Procs : pc[p] = "idle"

\* C26: with no processBid call in flight and a bid stored, the row's
\* highest_bid and highest_bidder are those of the stored bid of maximum
\* amount, earliest timestamp first (on an auction with a positive starting
\* price).
C26_RowProjectsTopBid ==
  (NoBidInFlight /\ bids # {} /\ Row.starting_price > 0)
    => \E r \in TopEarliest :
         /\ Row.highest_bid = r.amount
         /\ UserId(Row.highest_bidder) = r.bidder_id

\* C27: a bid that names an auction that does not exist is rejected for
\* that reason, the first rule in the order, whatever else is wrong with it.
C27_FirstFailingRule ==
  [][\A p \in Procs : \A b \in GhostInputs(now) :
       (Submit(p, b) /\ pc'[p] = "idle")
         => last'.reason[1] = "Auction not found"]_vars

\* C28: every call of broadcastBidUpdate is for a bid that is in the bids
\* table, it is made once the channel holds the bid as its latest and
\* highest one, by a processBid call that returns true; a processBid call
\* that ends by raising makes no such call.
C28_BroadcastAfterRecord ==
  /\ [](\A i \in DOMAIN broadcasts :
          \E r \in bids : r.bid_hash = BidHash(broadcasts[i].bid))
  /\ [][broadcasts' # broadcasts
          => LET m == broadcasts'[Len(broadcasts')]
                 st == channels'[m.channelId]
             IN /\ broadcasts' = Append(broadcasts, m)
                /\ \E r \in bids : r.bid_hash = BidHash(m.bid)
                /\ st.bids # <<>>
                /\ st.bids[Len(st.bids)] = m.bid
                /\ st.highestBid = m.bid.amount
                /\ last'.ok]_vars
  /\ [][\A p \in Procs :
          (\/ SubmitRejected(p)
           \/ (pc[p] # "idle" /\ pc'[p] = "idle" /\ ~last'.ok))
            => broadcasts' = broadcasts]_vars

\* broadcastBidUpdate has been called for a stored bid, and a later call of
\* processBid has ended by raising.
C28_Witness ==
  /\ broadcasts # <<>>
  /\ \E r \in bids : r.bid_hash = BidHash(broadcasts[1].bid)
  /\ ~last.ok

\* C29: a processBid call that ends by raising, for a bid that was not
\* stored when it was posted, leaves no row of the bid in the bids table
\* and, at the step it raises, the auction's row and the channels as they
\* were (calls one at a time).
C29_RaiseLeavesStateUntouched ==
  [][(pc[1] # "idle" /\ pc'[1] = "idle" /\ ~last'.ok /\ ~ctx[1].stored)
       => /\ ~\E r \in bids' : r.bid_hash = BidHash(req[1])
          /\ auctions' = auctions
          /\ channels' = channels]_vars

\* ------------------------------------------------- claims: channels, store
\* C20: createAuctionChannel returns the id of a channel with no bids, a
\* highest bid of 0, the zero address as highest bidder and turn 0; the
\* channel is a new one, independent of those created before for the same
\* auction id, and no channel that existed keeps a changed state.
C20_CreateChannelIsFreshAndFrames ==
  [][\A a \in {AuctionId} :
       CreateChannel(a) =>
         /\ NewChannelId(a) \notin DOMAIN channels
         /\ channels'[NewChannelId(a)] =
              [auctionId |-> a, bids |-> <<>>, highestBid |-> 0,
               highestBidder |-> "0x0", turnNum |-> 0]
         /\ \A c \in DOMAIN channels : channels'[c] = channels[c]]_vars

\* C19: storeBid for a bid whose hash is already in the bids table succeeds
\* and leaves the table as it was; the table never holds two rows with the
\* same hash.
C19_StoreBidIdempotent ==
  /\ [][\A p \in Procs :
          (AfterBidInsert(p) /\ \E r \in bids : r.bid_hash = BidHash(req[p]))
            => (bids' = bids /\ pc'[p] = "auctionUpdate")]_vars
  /\ [](\A r1, r2 \in bids : r1.bid_hash = r2.bid_hash => r1 = r2)

\* The same bid went through storeBid twice and the table holds one row.
C19_Witness ==
  /\ Len(accepted) = 2
  /\ accepted[1].bid = accepted[2].bid
  /\ Cardinality(bids) = 1

\* An observer that sent a subscribe message for the auction and whose
\* connection is open.
Subscribed(o) == AuctionId \in subs[o] /\ clients[o] = "open"

\* C18: when a bid is accepted for the auction, every subscribed observer
\* receives one bid_update message and no observer whose connection has
\* closed receives anything.
C18_BidUpdateReachesSubscribers ==
  [][(Len(accepted') = Len(accepted) + 1 /\ accepted'[Len(accepted')].bid.auctionId = AuctionId)
       => \A o \in Observers :
            /\ Subscribed(o) =>
                 /\ Len(inbox'[o]) = Len(inbox[o]) + 1
                 /\ inbox'[o][Len(inbox'[o])].type = "bid_update"
            /\ clients[o] = "closed" => inbox'[o] = inbox[o]]_vars


\* ------------------------------------------------- claims: several auctions
\* What belongs to one auction: its channel, its rows of bids and of
\* settlement_attempts, its row of auctions.
AuctionView(a) ==
  [channelId |-> appChannel[a],
   channel |-> IF appChannel[a] \in DOMAIN channels THEN channels[appChannel[a]]
               ELSE NoState,
   bids |-> {r \in bids : r.auction_id = a},
   attempts |-> SelectSeq(attempts, LAMBDA t : t.auction_id = a),
   row |-> auctions[a]]

\* The step is one of a processBid call for auction a.
BidStepsFor(p, a) ==
  \/ pc[p] # "idle" /\ req[p].auctionId = a /\ pc'[p] # pc[p]
  \/ CanSubmit(p) /\ \E b \in TwoAuctionInputs(now) : b.auctionId = a /\ Submit(p, b)

\* The step is one of a settlement of auction a.
SettleStepsFor(a) ==
  /\ a = AuctionId
  /\ \E s \in SettleReqs : spc'[s] # spc[s]

\* C31: a step that is neither one of a processBid call for an auction nor
\* one of its settlement leaves the auction's channel, bids, settlement
\* attempts and row as they were, whatever it does for another auction.
C31_OtherAuctionsUntouched ==
  [][\A a \in AuctionIds :
       (~SettleStepsFor(a) /\ \A p \in Procs : ~BidStepsFor(p, a))
         => AuctionView(a)' = AuctionView(a)]_vars

\* The second auction holds an accepted bid and its channel, while the
\* first has accepted a bid and has been settled.
C31_Witness ==
  /\ AuctionView(OtherAuctionId).bids # {}
  /\ AuctionView(OtherAuctionId).channel.turnNum = 2
  /\ AuctionView(AuctionId).bids # {}
  /\ auctions[AuctionId].settlement_status = "completed"
  /\ \E i \in DOMAIN accepted : accepted[i].bid.auctionId = OtherAuctionId


\* ------------------------------------------------- claims: health check job
\* The settlement job's SELECT returns the auction.
JobWouldSelect ==
  /\ Row.end_time < now
  /\ Row.status = "active"
  /\ Row.settlement_status # "completed"

IsPrefix(s, t) == Len(s) <= Len(t) /\ \A i \in DOMAIN s : t[i] = s[i]

\* C33: in every step, every channel keeps a highest bid at least as high as
\* before and keeps every bid of its list (on an auction with a positive
\* starting price).
C33_HighestBidNeverDecreases ==
  [][\A c \in DOMAIN channels :
       Row.starting_price > 0 =>
         /\ c \in DOMAIN channels'
         /\ channels'[c].highestBid >= channels[c].highestBid
         /\ IsPrefix(channels[c].bids, channels'[c].bids)]_vars


\* ------------------------------------------- claims: settlement executions
\* The settle request, invoked after the auction's end, has marked the
\* auction as processing and has not yet written a terminal status.
SettleInProgress(s) ==
  /\ sat[s] > Row.end_time
  /\ spc[s] \in {"noBidsCall", "noBidsWait", "noBidsUpdate", "ercUpdate", "legacyCall",
                 "attemptInsert", "legacyWait", "attemptUpdate", "legacyUpdate"}

\* Its transaction has been sent to the contract and is not yet resolved.
TransferSubmitted(s) ==
  /\ sat[s] > Row.end_time
  /\ spc[s] \in {"noBidsCall", "noBidsWait", "legacyCall", "attemptInsert", "legacyWait"}

\* The run of the job is between its mark and its terminal status.
JobInProgress == jpc = "winningBid"

\* C34: at most one execution (settle request or run of the job) is between
\* marking the auction as processing and a terminal status, and no two
\* transfers for the auction are submitted and unresolved at once (on an
\* auction with a positive starting price).
C34_OneSettlementInProgress ==
  Row.starting_price > 0 =>
    /\ Cardinality({s \in SettleReqs : SettleInProgress(s)})
         + (IF JobInProgress THEN 1 ELSE 0) <= 1
    /\ Cardinality({s \in SettleReqs : TransferSubmitted(s)}) <= 1


\* ---------------------------------------------- claims: the auction's status
\* C35: once the auction's status is completed or cancelled, no step
\* changes it (settle requests invoked after the auction's end).
C35_TerminalStatusStays ==
  [][(/\ Row.status \in {"completed", "cancelled"}
      /\ Row.status = "completed" => Row.settlement_attempted_at > Row.end_time
      /\ \A s \in SettleReqs : spc[s] # "idle" => sat[s] > Row.end_time)
       => auctions'[AuctionId].status = Row.status]_vars


SettleableBid(b) ==
  /\ chain.auction.isActive
  /\ chain.auction.isERC7824
  /\ now > chain.auction.endTime
  /\ b.bidder # ZeroAddress
  /\ validateBidSignature(b)
  /\ b.amount >= chain.auction.startingPrice
  /\ b.amount >= chain.auction.highestBid + chain.auction.minBidIncrement
  /\ b.nonce > chain.bidderNonces[getAddress(b.bidder)]

\* C37: settleERC7824Auction called with such a bid succeeds: the auction
\* becomes inactive, the NFT goes to the bidder, the seller receives the
\* amount less the fee and the owner the fee.
C37_SettleWithValidBidSucceeds ==
  [][\A b \in SettleInputs :
       (SettleableBid(b) /\ CallSettleERC7824Auction(b)) =>
         LET fee == (b.amount * chain.platformFee) \div BasisPoints
         IN /\ chain'.last.ok
            /\ ~chain'.auction.isActive
            /\ chain'.nftOwner = getAddress(b.bidder)
            /\ chain'.received[Seller] = chain.received[Seller] + b.amount - fee
            /\ chain'.received[Owner] = chain.received[Owner] + fee]_vars


\* The latest call was a settlement with a winner.
SettledWithWinner ==
  /\ chain.last.ok
  /\ chain.last.fn \in {"settleERC7824Auction", "completeAuction"}
  /\ chain.last.winner # ZeroAddress

\* C38: the platform fee is at most 1000 basis points in every state, and in
\* a settlement with a winner the fee is floor(amount * platformFee / 10000),
\* at most a tenth of the amount, the seller's amount is not negative, the
\* two add up to the winning amount and are what the owner and the seller
\* are sent.
C38_FeeArithmetic ==
  /\ chain.platformFee <= 1000
  /\ SettledWithWinner =>
       /\ chain.last.rate <= 1000
       /\ chain.last.feeAmount = (chain.last.amount * chain.last.rate) \div 10000
       /\ chain.last.feeAmount + chain.last.sellerAmount = chain.last.amount
       /\ chain.last.feeAmount * 10 <= chain.last.amount
       /\ chain.last.sellerAmount >= 0
       /\ chain.last.toOwner = chain.last.feeAmount
       /\ chain.last.toSeller = chain.last.sellerAmount

\* completeAuction has paid out a winning bid of 12345 at the highest fee:
\* the fee is rounded down to 1234.
C38_Witness ==
  /\ SettledWithWinner
  /\ chain.last.fn = "completeAuction"
  /\ chain.last.amount = 12345
  /\ chain.last.rate = 1000
  /\ chain.last.feeAmount = 1234
  /\ chain.received[Seller] = 11111

====
